---- MODULE Spec2Model ----
(***************************************************************************)
(* Model of the ODE solver (ODESolver / CoupledODESolver), its numerical   *)
(* method registry and the outcome of expression parsing.                  *)
(*                                                                         *)
(* Numbers.  The program computes with JavaScript numbers (IEEE-754        *)
(* binary64, round to nearest, ties to even).  A finite number is the      *)
(* record [m |-> M, e |-> E] standing for M * 2^E with M odd (or M = 0,    *)
(* E = 0), and every arithmetic operation rounds its exact result to       *)
(* Precision significant bits, ties to even, exactly as the hardware does  *)
(* with 53 bits.  The exponent range is the one of binary64; NaN and the   *)
(* two infinities are values of their own.  Zero has no sign.              *)
(* performance.now() and the computationTime field are left out.           *)
(***************************************************************************)
EXTENDS Integers, Sequences, FiniteSets, TLC

\* Significant bits kept by every arithmetic operation (53 in binary64).
Precision == 12

\* Largest binary exponent of a finite number: 2^1024 overflows to Infinity.
EMax == 1024

Zero == [m |-> 0, e |-> 0]

\* The three non-finite numbers; the sign of an infinity is the sign of m.
NaN == [m |-> 0, e |-> EMax + 1]
PosInf == [m |-> 1, e |-> EMax + 1]
NegInf == [m |-> -1, e |-> EMax + 1]

\* Number.isFinite
IsFinite(x) == x.e <= EMax

IsNaN(x) == x = NaN

RECURSIVE BitLen(_)
BitLen(n) == IF n = 0 THEN 0 ELSE 1 + BitLen(n \div 2)

IAbs(n) == IF n < 0 THEN -n ELSE n
IMin(a, b) == IF a < b THEN a ELSE b
IMax(a, b) == IF a < b THEN b ELSE a
ISign(n) == IF n < 0 THEN -1 ELSE IF n > 0 THEN 1 ELSE 0

\* Canonical form of m * 2^e; a magnitude of 2^EMax or more is an infinity.
RECURSIVE Norm(_, _)
Norm(m, e) ==
  IF m = 0 THEN Zero
  ELSE IF m % 2 = 0 THEN Norm(m \div 2, e + 1)
  ELSE IF BitLen(IAbs(m)) + e > EMax THEN (IF m < 0 THEN NegInf ELSE PosInf)
  ELSE [m |-> m, e |-> e]

\* The magnitude q * 2^k + r (r < 2^k, k > 0) rounded to a multiple of 2^k:
\* up when r is above half of 2^k, or is that half and q is odd.
RoundTies(sign, q, r, k, e) ==
  Norm(sign * (IF r > 2 ^ (k - 1) \/ (r = 2 ^ (k - 1) /\ q % 2 = 1) THEN q + 1 ELSE q),
       e + k)

\* sign * a * 2^e with the k low bits of a rounded away.
RoundBits(sign, a, k, e) ==
  IF k = 0 THEN Norm(sign * a, e)
  ELSE RoundTies(sign, a \div (2 ^ k), a % (2 ^ k), k, e)

\* The number of bits of a magnitude of bl bits beyond Precision.
ExcessBits(bl) == IF bl > Precision THEN bl - Precision ELSE 0

\* n * 2^e rounded to Precision significant bits, ties to even.
RoundME(n, e) ==
  IF n = 0 THEN Zero
  ELSE RoundBits(ISign(n), IAbs(n), ExcessBits(BitLen(IAbs(n))), e)

FromInt(n) == RoundME(n, 0)

\* -x and Math.abs(x) (zero has no sign in the model).
FNeg(x) == [m |-> -x.m, e |-> x.e]
FAbs(x) == [m |-> IAbs(x.m), e |-> x.e]

\* Binary exponent just above the leading bit of x.
Top(x) == x.e + BitLen(IAbs(x.m))

\* x + y.  When the operands are more than 30 binary places apart the
\* smaller one lies below a quarter of the last place of the larger one
\* and the rounded sum is the larger operand.
FAdd(x, y) ==
  IF IsNaN(x) \/ IsNaN(y) THEN NaN
  ELSE IF ~IsFinite(x) /\ ~IsFinite(y) THEN (IF x = y THEN x ELSE NaN)
  ELSE IF ~IsFinite(x) THEN x
  ELSE IF ~IsFinite(y) THEN y
  ELSE IF x.m = 0 THEN y
  ELSE IF y.m = 0 THEN x
  ELSE LET lo == IMin(x.e, y.e)
       IN  IF IMax(Top(x), Top(y)) - lo > 30
           THEN (IF Top(x) > Top(y) THEN x ELSE y)
           ELSE RoundME(x.m * (2 ^ (x.e - lo)) + y.m * (2 ^ (y.e - lo)), lo)

FSub(x, y) == FAdd(x, FNeg(y))

FMul(x, y) ==
  IF IsNaN(x) \/ IsNaN(y) THEN NaN
  ELSE IF ~IsFinite(x) \/ ~IsFinite(y)
       THEN (IF x.m = 0 \/ y.m = 0 THEN NaN
             ELSE IF ISign(x.m) = ISign(y.m) THEN PosInf ELSE NegInf)
  ELSE RoundME(x.m * y.m, x.e + y.e)

\* |x.m| * 2^s / |y.m| truncated to an integer, with one more (sticky) bit
\* that is set when the division left a remainder; then rounded.
Quotient(x, y, s) ==
  RoundME(ISign(x.m) * ISign(y.m)
            * (2 * ((IAbs(x.m) * (2 ^ s)) \div IAbs(y.m))
               + (IF (IAbs(x.m) * (2 ^ s)) % IAbs(y.m) = 0 THEN 0 ELSE 1)),
          x.e - y.e - s - 1)

\* x / y: the quotient to Precision + 2 bits with a sticky last bit, rounded.
FDiv(x, y) ==
  IF IsNaN(x) \/ IsNaN(y) THEN NaN
  ELSE IF ~IsFinite(x)
       THEN (IF ~IsFinite(y) THEN NaN
             ELSE IF ISign(x.m) * ISign(y.m) < 0 THEN NegInf ELSE PosInf)
  ELSE IF ~IsFinite(y) THEN Zero
  ELSE IF y.m = 0
       THEN (IF x.m = 0 THEN NaN ELSE IF x.m < 0 THEN NegInf ELSE PosInf)
  ELSE IF x.m = 0 THEN Zero
  ELSE Quotient(x, y, Precision + 2 + BitLen(IAbs(y.m)) - BitLen(IAbs(x.m)))

\* x < y and x <= y; every comparison with NaN is false.
FLt(x, y) ==
  IF IsNaN(x) \/ IsNaN(y) \/ x = y THEN FALSE
  ELSE IF IsFinite(x) /\ IsFinite(y) THEN FSub(x, y).m < 0
  ELSE x = NegInf \/ y = PosInf
FLe(x, y) == ~IsNaN(x) /\ ~IsNaN(y) /\ (x = y \/ FLt(x, y))
FGt(x, y) == FLt(y, x)
FGe(x, y) == FLe(y, x)

\* The decimal literal n/d as the nearest representable number.
Dec(n, d) == FDiv(FromInt(n), FromInt(d))

(***************************************************************************)
(* Values returned or thrown.  A call either returns v (ok) or throws an   *)
(* Error whose message is msg.                                             *)
(***************************************************************************)
Ret(v) == [ok |-> TRUE, v |-> v, msg |-> <<>>]
Thrown(msg) == [ok |-> FALSE, v |-> Zero, msg |-> msg]

\* The constants of the program as the number format represents them.
Half == Dec(1, 2)
One == FromInt(1)
Two == FromInt(2)
Six == FromInt(6)

(***************************************************************************)
(* Expressions.  An expression is the sequence of its tokens; mathjs is    *)
(* modelled by its outcome on the expressions the model uses.              *)
(***************************************************************************)
ALLOWED_FUNCTIONS ==
  {"sin", "cos", "tan", "sec", "csc", "cot", "asin", "acos", "atan", "atan2",
   "sinh", "cosh", "tanh", "exp", "log", "log10", "log2", "sqrt", "cbrt",
   "pow", "abs", "floor", "ceil", "round", "sign", "max", "min", "random"}

ALLOWED_CONSTANTS == {"pi", "PI", "e", "E", "i"}

\* Tokens that VARIABLE_PATTERN matches: the identifiers of the model.
Identifiers ==
  {"t", "y", "z", "y0", "y1", "y2", "y3"} \cup ALLOWED_FUNCTIONS \cup ALLOWED_CONSTANTS

Operators == {"+", "-", "*", "/"}

\* A token ends (begins) with a word character unless it is punctuation.
IsWord(tok) == tok \notin (Operators \cup {"(", ")", ",", "^", "**"})

\* The identifiers of an expression that are neither functions nor constants.
extractVariables(expression) ==
  {expression[k] : k \in {j \in 1..Len(expression) :
       /\ expression[j] \in Identifiers
       /\ expression[j] \notin ALLOWED_FUNCTIONS
       /\ expression[j] \notin ALLOWED_CONSTANTS}}

\* A number with an identifier written straight after it ("2z"): an implicit
\* product for mathjs, but no match of VARIABLE_PATTERN, whose \b finds no
\* word boundary between the digit and the letter.
GluedSymbols(tok) == IF tok = "2z" THEN {"z"} ELSE {}

\* The symbols mathjs looks up in the scope when it evaluates an expression.
SymbolsOf(expression) ==
  extractVariables(expression)
    \cup UNION {GluedSymbols(expression[k]) : k \in DOMAIN expression}

\* The "(" that encloses position k (the expressions of the model do not
\* nest parentheses), 0 when there is none.
OpenBefore(expression, k) ==
  LET opens == {j \in 1..(k - 1) : expression[j] = "("}
  IN  IF opens = {} THEN 0 ELSE CHOOSE j \in opens : \A i \in opens : i <= j

\* A function name that is not applied: the next token is not its "(".
FunctionAsValue(expression) ==
  \E k \in DOMAIN expression :
     /\ expression[k] \in ALLOWED_FUNCTIONS
     /\ (k = Len(expression) \/ expression[k + 1] # "(")

\* mathjs parse(): throws on an empty expression, on a dangling operator and
\* on a comma inside parentheses that are not the argument list of a call
\* ("Parenthesis ) expected").
MathjsParses(expression) ==
  /\ Len(expression) > 0
  /\ expression[Len(expression)] \notin Operators
  /\ \A k \in 1..(Len(expression) - 1) :
        ~(expression[k] \in Operators /\ expression[k + 1] \in {"*", "/", ")"})
  /\ \A k \in DOMAIN expression :
        expression[k] = "," =>
           /\ OpenBefore(expression, k) > 1
           /\ IsWord(expression[OpenBefore(expression, k) - 1])

\* tree.evaluate(context): the value of a compiled expression in a context
\* (a function from variable names to numbers); a symbol missing from the
\* context makes mathjs throw.
TreeEvaluate(tree, context) ==
  IF ~(SymbolsOf(tree) \subseteq DOMAIN context)
  THEN Thrown(<<"Undefined symbol">>)
  ELSE IF FunctionAsValue(tree)
  THEN Thrown(<<"Unexpected type of argument in function multiply">>)
  ELSE CASE tree = <<"t", "+", "y">> -> Ret(FAdd(context["t"], context["y"]))
         [] tree = <<"1">> -> Ret(One)
         [] tree = <<"y">> -> Ret(context["y"])
         [] tree = <<"1", "/", "(", "t", "-", "1", ")">> ->
              Ret(FDiv(One, FSub(context["t"], One)))
         [] tree = <<"t", "+", "y1">> -> Ret(FAdd(context["t"], context["y1"]))
         [] tree = <<"y2">> -> Ret(context["y2"])
         [] tree = <<"-", "y1">> -> Ret(FNeg(context["y1"]))
         [] OTHER -> Thrown(<<"Unsupported expression">>)

(***************************************************************************)
(* Evaluators.  An ODEFunction is either the closure parse() compiles      *)
(* (kind "compiled") or a function the caller hands to solveWithFunction.  *)
(***************************************************************************)
Compiled(tree) == [kind |-> "compiled", tree |-> tree]
UserFn(kind) == [kind |-> kind, tree |-> <<>>]

\* The catch block of the compiled evaluator: what mathjs throws is thrown
\* again as an "Evaluation error".
Rethrow(r, prefix) == IF r.ok THEN r ELSE Thrown(<<prefix>> \o r.msg)

\* f(t, y) for a scalar evaluator.
Eval(f, t, y) ==
  CASE f.kind = "compiled" ->
         Rethrow(TreeEvaluate(f.tree, [n \in {"t", "y"} |-> IF n = "t" THEN t ELSE y]),
                 "Evaluation error: ")
    [] f.kind = "throws" -> Thrown(<<"boom">>)
    [] f.kind = "nan" -> Ret(NaN)
    [] f.kind = "zero" -> Ret(Zero)
    [] f.kind = "tiny" -> Ret(Dec(-1, 10000000))
    [] f.kind = "throwsLate" ->
         IF FGt(t, Half) THEN Thrown(<<"boom">>) ELSE Ret(One)
    [] f.kind = "invalid" -> Thrown(f.tree)
    [] OTHER -> Thrown(<<"not a function">>)

(***************************************************************************)
(* NumericalMethods: the scalar step functions.  A step returns            *)
(* [ok, t, y] or propagates what the evaluator threw.                      *)
(***************************************************************************)
StepRet(t, y) == [ok |-> TRUE, t |-> t, y |-> y, msg |-> <<>>]
StepThrown(msg) == [ok |-> FALSE, t |-> Zero, y |-> Zero, msg |-> msg]

\* euler after k1 = f(x, y).
eulerStep(x, y, h, k1) ==
  IF ~k1.ok THEN StepThrown(k1.msg)
  ELSE StepRet(FAdd(x, h), FAdd(y, FMul(h, k1.v)))

euler(f, x, y, h) == eulerStep(x, y, h, Eval(f, x, y))

\* heun after k1 = f(x, y) and after k2 = f(x + h, yPredictor).
heunCorrector(x, y, h, k1, k2) ==
  IF ~k2.ok THEN StepThrown(k2.msg)
  ELSE StepRet(FAdd(x, h), FAdd(y, FDiv(FMul(h, FAdd(k1, k2.v)), Two)))

heunPredictor(f, x, y, h, k1) ==
  IF ~k1.ok THEN StepThrown(k1.msg)
  ELSE heunCorrector(x, y, h, k1.v, Eval(f, FAdd(x, h), FAdd(y, FMul(h, k1.v))))

heun(f, x, y, h) == heunPredictor(f, x, y, h, Eval(f, x, y))

\* The sum of an rk4 step with the four slopes weighted alike.
rk4SumEqualWeights(x, y, h, k1, k2, k3, k4) ==
  IF ~k4.ok THEN StepThrown(k4.msg)
  ELSE StepRet(FAdd(x, h),
               FAdd(y, FDiv(FMul(h, FAdd(FAdd(FAdd(k1, k2), k3), k4.v)), Six)))

\* rk4 after each of its four evaluations k1 .. k4, in order.
rk4Sum(x, y, h, k1, k2, k3, k4) ==
  IF ~k4.ok THEN StepThrown(k4.msg)
  ELSE StepRet(FAdd(x, h),
               FAdd(y, FDiv(FMul(h, FAdd(FAdd(FAdd(k1, FMul(Two, k2)), FMul(Two, k3)),
                                         k4.v)),
                            Six)))

rk4Stage4(f, x, y, h, k1, k2, k3) ==
  IF ~k3.ok THEN StepThrown(k3.msg)
  ELSE rk4Sum(x, y, h, k1, k2, k3.v, Eval(f, FAdd(x, h), FAdd(y, FMul(h, k3.v))))

rk4Stage3(f, x, y, h, k1, k2) ==
  IF ~k2.ok THEN StepThrown(k2.msg)
  ELSE rk4Stage4(f, x, y, h, k1, k2.v,
                 Eval(f, FAdd(x, FDiv(h, Two)), FAdd(y, FDiv(FMul(h, k2.v), Two))))

rk4Stage2(f, x, y, h, k1) ==
  IF ~k1.ok THEN StepThrown(k1.msg)
  ELSE rk4Stage3(f, x, y, h, k1.v,
                 Eval(f, FAdd(x, FDiv(h, Two)), FAdd(y, FDiv(FMul(h, k1.v), Two))))

rk4(f, x, y, h) == rk4Stage2(f, x, y, h, Eval(f, x, y))

\* The registry keys of getAllMethods().
MethodKeys == {"euler", "heun", "rk4"}

\* String.prototype.toLowerCase on the method names of the model.
toLowerCase(name) ==
  CASE name = "RK4" -> "rk4"
    [] name = "Euler" -> "euler"
    [] OTHER -> name

\* getMethod(name): the registry key, or "undefined" when there is none.
getMethod(name) ==
  IF toLowerCase(name) \in MethodKeys THEN toLowerCase(name) ELSE "undefined"

\* method.solve(f, t, y, h) of the scalar registry.
MethodSolve(method, f, x, y, h) ==
  CASE method = "euler" -> euler(f, x, y, h)
    [] method = "heun" -> heun(f, x, y, h)
    [] OTHER -> rk4(f, x, y, h)

\* method.name of the scalar registry.
MethodName(method) ==
  CASE method = "euler" -> "Euler's Method"
    [] method = "heun" -> "Heun's Method"
    [] OTHER -> "Runge-Kutta 4th Order"

(***************************************************************************)
(* EquationParser                                                          *)
(***************************************************************************)
\* The first two rewrites of normalizeExpression on tokens: a ^ b and
\* a ** b become pow(a, b).  The operands of the model's powers are words.
RECURSIVE PowRewrite(_)
PowRewrite(expression) ==
  IF Len(expression) = 0 THEN expression
  ELSE IF /\ Len(expression) >= 3
          /\ IsWord(expression[1]) /\ expression[2] \in {"^", "**"}
          /\ IsWord(expression[3])
  THEN <<"pow", "(", expression[1], ",", expression[3], ")">>
         \o PowRewrite(SubSeq(expression, 4, Len(expression)))
  ELSE <<expression[1]>> \o PowRewrite(Tail(expression))

\* The next two rewrites: a "*" is inserted between a word character and a
\* following "(" and between a ")" and a following word character.
RECURSIVE ImplicitProducts(_)
ImplicitProducts(expression) ==
  IF Len(expression) <= 1 THEN expression
  ELSE LET a == expression[1]
           b == expression[2]
           rest == ImplicitProducts(Tail(expression))
       IN  IF (IsWord(a) /\ b = "(") \/ (a = ")" /\ IsWord(b))
           THEN <<a, "*">> \o rest
           ELSE <<a>> \o rest

\* normalizeExpression on tokens (the remaining rewrites change spacing
\* only, which tokens do not have).
normalizeExpression(expression) == ImplicitProducts(PowRewrite(expression))

\* The elements of a set of strings as a sequence (join(', ')).
SetToSeq(S) == CHOOSE q \in [1..Cardinality(S) -> S] : \A x \in S : \E k \in DOMAIN q : q[k] = x

\* EquationParser.parse once the expression is normalised and the test
\* evaluation evaluate(1, 1) is made.
parseNormalized(cleanExpression, variables, invalidVars, evaluate, testResult) ==
      IF invalidVars # {}
      THEN [valid |-> FALSE, variables |-> variables,
            evaluate |-> [kind |-> "invalid", tree |-> <<"Invalid variables">>],
            error |-> <<"Invalid variables found: ">> \o SetToSeq(invalidVars)
                        \o <<". Only 't' and 'y' are allowed.">>]
      ELSE IF ~MathjsParses(cleanExpression)
      THEN [valid |-> FALSE, variables |-> {},
            evaluate |-> [kind |-> "invalid", tree |-> <<"Parse error">>],
            error |-> <<"Parse error: ", "Unexpected end of expression">>]
      ELSE IF ~testResult.ok
      THEN [valid |-> FALSE, variables |-> variables, evaluate |-> evaluate,
            error |-> <<"Function test failed: ">> \o testResult.msg]
      ELSE IF ~IsFinite(testResult.v)
      THEN [valid |-> FALSE, variables |-> variables, evaluate |-> evaluate,
            error |-> <<"Function test failed: ", "Function produces non-finite values">>]
      ELSE [valid |-> TRUE, variables |-> variables, evaluate |-> evaluate,
            error |-> <<>>]

\* EquationParser.parse
parse(expression) ==
  parseNormalized(normalizeExpression(expression),
                  extractVariables(normalizeExpression(expression)),
                  extractVariables(normalizeExpression(expression)) \ {"t", "y"},
                  Compiled(normalizeExpression(expression)),
                  Eval(Compiled(normalizeExpression(expression)), One, One))

(***************************************************************************)
(* Step-size advisory and option validation                                *)
(***************************************************************************)
Ten == FromInt(10)
Twenty == FromInt(20)
TenThousand == FromInt(10000)
FiftyThousand == FromInt(50000)
HundredThousand == FromInt(100000)
Thousand == FromInt(1000)
Million == FromInt(1000000)

\* An advisory whose upper limit leaves out 100000 steps itself.
stepSizeAdviceBelowLimit(totalRange, numSteps) ==
      IF FLt(numSteps, Ten)
      THEN [valid |-> FALSE, suggested |-> FDiv(totalRange, Twenty),
            warning |-> <<"Step size too large. Consider using h <= suggested for better accuracy.">>]
      ELSE IF FGe(numSteps, HundredThousand)
      THEN [valid |-> FALSE, suggested |-> FDiv(totalRange, TenThousand),
            warning |-> <<"Step size too small. Consider using h >= suggested for faster computation.">>]
      ELSE IF FGt(numSteps, FiftyThousand)
      THEN [valid |-> TRUE, suggested |-> NaN,
            warning |-> <<"Large number of steps. Computation may take some time.">>]
      ELSE [valid |-> TRUE, suggested |-> NaN, warning |-> <<>>]

\* NumericalMethods.validateStepSize once totalRange and numSteps are known.
stepSizeAdvice(totalRange, numSteps) ==
      IF FLt(numSteps, Ten)
      THEN [valid |-> FALSE, suggested |-> FDiv(totalRange, Twenty),
            warning |-> <<"Step size too large. Consider using h <= suggested for better accuracy.">>]
      ELSE IF FGt(numSteps, HundredThousand)
      THEN [valid |-> FALSE, suggested |-> FDiv(totalRange, TenThousand),
            warning |-> <<"Step size too small. Consider using h >= suggested for faster computation.">>]
      ELSE IF FGt(numSteps, FiftyThousand)
      THEN [valid |-> TRUE, suggested |-> NaN,
            warning |-> <<"Large number of steps. Computation may take some time.">>]
      ELSE [valid |-> TRUE, suggested |-> NaN, warning |-> <<>>]

\* NumericalMethods.validateStepSize
validateStepSize(stepSize, x0, xEnd) ==
  stepSizeAdvice(FAbs(FSub(xEnd, x0)), FDiv(FAbs(FSub(xEnd, x0)), stepSize))

Valid == [valid |-> TRUE, error |-> <<>>]
Invalid(error) == [valid |-> FALSE, error |-> <<error>>]

\* The advisory taken as a mere warning: never an error.
adviceIgnored(stepValidation) == Valid

\* The last check of ODESolver.validateOptions: an advisory that is not
\* valid and carries a warning is the error.
adviceCheck(stepValidation) ==
  IF ~stepValidation.valid /\ stepValidation.warning # <<>>
  THEN [valid |-> FALSE, error |-> stepValidation.warning]
  ELSE Valid

\* The checks of validateOptions with the test t0 === tEnd ahead of the
\* tests of the step size.
validateChecksDomainFirst(t0, y0, tEnd, stepSize, domain) ==
  IF ~IsFinite(t0) \/ ~IsFinite(y0) \/ ~IsFinite(tEnd) \/ ~IsFinite(stepSize)
  THEN Invalid("All parameters must be finite numbers")
  ELSE IF t0 = tEnd
  THEN Invalid("Start and end t values cannot be equal")
  ELSE IF FLe(stepSize, Zero)
  THEN Invalid("Step size must be positive")
  ELSE IF FGt(stepSize, domain)
  THEN Invalid("Step size cannot be larger than the integration domain")
  ELSE IF FGt(domain, Thousand)
  THEN Invalid("Integration domain too large (|tEnd - t0| > 1000)")
  ELSE IF FGt(FAbs(y0), Million)
  THEN Invalid("Initial y value too large (|y0| > 1e6)")
  ELSE adviceCheck(validateStepSize(stepSize, t0, tEnd))

\* ODESolver.validateOptions with domain = Math.abs(tEnd - t0).
validateChecks(t0, y0, tEnd, stepSize, domain) ==
  IF ~IsFinite(t0) \/ ~IsFinite(y0) \/ ~IsFinite(tEnd) \/ ~IsFinite(stepSize)
  THEN Invalid("All parameters must be finite numbers")
  ELSE IF FLe(stepSize, Zero)
  THEN Invalid("Step size must be positive")
  ELSE IF FGt(stepSize, domain)
  THEN Invalid("Step size cannot be larger than the integration domain")
  ELSE IF t0 = tEnd
  THEN Invalid("Start and end t values cannot be equal")
  ELSE IF FGt(domain, Thousand)
  THEN Invalid("Integration domain too large (|tEnd - t0| > 1000)")
  ELSE IF FGt(FAbs(y0), Million)
  THEN Invalid("Initial y value too large (|y0| > 1e6)")
  ELSE adviceCheck(validateStepSize(stepSize, t0, tEnd))

\* ODESolver.validateOptions
validateOptions(options) ==
  validateChecks(options.t0, options.y0, options.tEnd, options.stepSize,
                 FAbs(FSub(options.tEnd, options.t0)))

\* CoupledODESolver.validateOptions with domain = Math.abs(tEnd - t0);
\* y0 is [isArray, items].
CoupledValidateChecks(t0, y0, tEnd, stepSize, domain) ==
  IF ~IsFinite(t0) \/ ~IsFinite(tEnd) \/ ~IsFinite(stepSize)
  THEN Invalid("t0, tEnd, and stepSize must be finite numbers")
  ELSE IF ~y0.isArray \/ Len(y0.items) = 0
  THEN Invalid("y0 must be a non-empty array")
  ELSE IF ~(\A k \in DOMAIN y0.items : IsFinite(y0.items[k]))
  THEN Invalid("All initial y values must be finite numbers")
  ELSE IF FLe(stepSize, Zero)
  THEN Invalid("Step size must be positive")
  ELSE IF FGt(stepSize, domain)
  THEN Invalid("Step size cannot be larger than the integration domain")
  ELSE IF t0 = tEnd
  THEN Invalid("Start and end t values cannot be equal")
  ELSE IF FGt(domain, Thousand)
  THEN Invalid("Integration domain too large (|tEnd - t0| > 1000)")
  ELSE IF \E k \in DOMAIN y0.items : FGt(FAbs(y0.items[k]), Million)
  THEN Invalid("Initial y values too large (|y0[i]| > 1e6)")
  ELSE Valid

\* CoupledODESolver.validateOptions
CoupledValidateOptions(options) ==
  CoupledValidateChecks(options.t0, options.y0, options.tEnd, options.stepSize,
                        FAbs(FSub(options.tEnd, options.t0)))

(***************************************************************************)
(* Coupled systems: parser, evaluators and step functions                  *)
(***************************************************************************)
\* The name `y${i + 1}` of the component at (1-based) position i.
YName(i) == CASE i = 1 -> "y1" [] i = 2 -> "y2" [] i = 3 -> "y3" [] OTHER -> "y4"

\* The context { t, y1, ..., yn } the coupled evaluator builds from (t, y).
CoupledContext(t, y) ==
  [n \in {"t"} \cup {YName(i) : i \in DOMAIN y} |->
     IF n = "t" THEN t ELSE y[CHOOSE i \in DOMAIN y : YName(i) = n]]

\* The positions (in array order) of the results that are an error or not
\* a finite number.
Failing(results) ==
  {k \in DOMAIN results : ~results[k].ok \/ ~IsFinite(results[k].v)}

\* compiled.map(...): the values, or what the first failing evaluation
\* throws (wrapped by the catch block of the evaluator).
MapResults(results, bad) ==
  IF bad = {} THEN Ret([j \in DOMAIN results |-> results[j].v])
  ELSE Thrown(<<"Evaluation failed: ">> \o
              (IF results[CHOOSE k \in bad : \A j \in bad : k <= j].ok
               THEN <<"Non-numeric result">>
               ELSE results[CHOOSE k \in bad : \A j \in bad : k <= j].msg))

\* The result of evaluating every tree in the context { t, y1, ..., yn }.
EvaluateAll(trees, context) ==
  [j \in DOMAIN trees |-> TreeEvaluate(trees[j], context)]

\* f(t, y) for a coupled evaluator; y is a sequence of numbers.  The caller's
\* function "surplus" is (t, y) => [...y.map(() => 1), 1 / (t - 1)]: one
\* component more than y has.
CoupledEval(f, t, y) ==
  CASE f.kind = "compiled" ->
         MapResults(EvaluateAll(f.tree, CoupledContext(t, y)),
                    Failing(EvaluateAll(f.tree, CoupledContext(t, y))))
    [] f.kind = "throws" -> Thrown(<<"boom">>)
    [] f.kind = "nan" -> Ret([j \in DOMAIN y |-> NaN])
    [] f.kind = "zero" -> Ret([j \in DOMAIN y |-> Zero])
    [] f.kind = "tiny" -> Ret([j \in DOMAIN y |-> Dec(-1, 10000000)])
    [] f.kind = "throwsLate" ->
         IF FGt(t, Half) THEN Thrown(<<"boom">>) ELSE Ret([j \in DOMAIN y |-> One])
    [] f.kind = "surplus" ->
         Ret([j \in 1..(Len(y) + 1) |->
                IF j <= Len(y) THEN One ELSE FDiv(One, FSub(t, One))])
    [] f.kind = "invalid" -> Thrown(f.tree)
    [] OTHER -> Thrown(<<"not a function">>)

\* The identifiers of the model in the order Array.prototype.sort gives.
SortedIdentifiers == <<"t", "y", "y0", "y1", "y2", "y3", "z">>

\* /^(t|y\d+)$/ on the identifiers of the model.
expectedPattern(variable) == variable \in {"t", "y0", "y1", "y2", "y3"}

\* EquationParser.parseCoupled
parseCoupled(expressions) ==
  LET cleanExpressions == [k \in DOMAIN expressions |-> normalizeExpression(expressions[k])]
      allVariables == UNION {extractVariables(cleanExpressions[k]) : k \in DOMAIN expressions}
      rejected == {k \in DOMAIN SortedIdentifiers :
                     /\ SortedIdentifiers[k] \in allVariables
                     /\ ~expectedPattern(SortedIdentifiers[k])}
      first == SortedIdentifiers[CHOOSE k \in rejected : \A j \in rejected : k <= j]
  IN  IF Len(expressions) = 0
      THEN [valid |-> FALSE, variables |-> {},
            evaluate |-> [kind |-> "invalid", tree |-> <<"No equations">>],
            error |-> <<"No equations provided">>]
      ELSE IF \E k \in DOMAIN expressions : ~MathjsParses(cleanExpressions[k])
      THEN [valid |-> FALSE, variables |-> {},
            evaluate |-> [kind |-> "invalid", tree |-> <<"Parse error">>],
            error |-> <<"Parse error: ", "Unexpected end of expression">>]
      ELSE IF rejected # {}
      THEN [valid |-> FALSE, variables |-> allVariables,
            evaluate |-> [kind |-> "invalid", tree |-> <<"Invalid variables">>],
            error |-> <<"Invalid variable '", first, "'. Expected format: t, y1, y2, y3, etc.">>]
      ELSE [valid |-> TRUE, variables |-> allVariables,
            evaluate |-> Compiled(cleanExpressions), error |-> <<>>]

\* k[i] ?? 0
At(k, i) == IF i \in DOMAIN k THEN k[i] ELSE Zero

CStepRet(t, y) == [ok |-> TRUE, t |-> t, y |-> y, msg |-> <<>>]
CStepThrown(msg) == [ok |-> FALSE, t |-> Zero, y |-> <<>>, msg |-> msg]

\* An Euler step that maps over the derivative vector instead of y.
CoupledEulerStepOverDerivative(x, y, h, k1) ==
  IF ~k1.ok THEN CStepThrown(k1.msg)
  ELSE CStepRet(FAdd(x, h), [i \in DOMAIN k1.v |-> FAdd(At(y, i), FMul(h, k1.v[i]))])

\* euler after k1 = f(x, y): y.map over the components of y.
CoupledEulerStep(x, y, h, k1) ==
  IF ~k1.ok THEN CStepThrown(k1.msg)
  ELSE CStepRet(FAdd(x, h), [i \in DOMAIN y |-> FAdd(y[i], FMul(h, At(k1.v, i)))])

CoupledEuler(f, x, y, h) == CoupledEulerStep(x, y, h, CoupledEval(f, x, y))

\* y.map((yi, i) => yi + c * (k[i] ?? 0)) with c = h / d (d = 1 or 2) as the
\* program writes it: h * k[i], then the division when there is one.
MapStep(y, h, k, halve) ==
  [i \in DOMAIN y |->
     FAdd(y[i], IF halve THEN FDiv(FMul(h, At(k, i)), Two) ELSE FMul(h, At(k, i)))]

\* A corrector that leaves out the division by 2.
CoupledHeunCorrectorUnhalved(x, y, h, k1, k2) ==
  IF ~k2.ok THEN CStepThrown(k2.msg)
  ELSE CStepRet(FAdd(x, h),
                [i \in DOMAIN y |-> FAdd(y[i], FMul(h, FAdd(At(k1, i), At(k2.v, i))))])

CoupledHeunCorrector(x, y, h, k1, k2) ==
  IF ~k2.ok THEN CStepThrown(k2.msg)
  ELSE CStepRet(FAdd(x, h),
                [i \in DOMAIN y |->
                   FAdd(y[i], FDiv(FMul(h, FAdd(At(k1, i), At(k2.v, i))), Two))])

CoupledHeunPredictor(f, x, y, h, k1) ==
  IF ~k1.ok THEN CStepThrown(k1.msg)
  ELSE CoupledHeunCorrector(x, y, h, k1.v,
                            CoupledEval(f, FAdd(x, h), MapStep(y, h, k1.v, FALSE)))

CoupledHeun(f, x, y, h) == CoupledHeunPredictor(f, x, y, h, CoupledEval(f, x, y))

CoupledRk4Sum(x, y, h, k1, k2, k3, k4) ==
  IF ~k4.ok THEN CStepThrown(k4.msg)
  ELSE CStepRet(FAdd(x, h),
         [i \in DOMAIN y |->
            FAdd(y[i],
                 FDiv(FMul(h, FAdd(FAdd(FAdd(At(k1, i), FMul(Two, At(k2, i))),
                                         FMul(Two, At(k3, i))),
                                    At(k4.v, i))),
                      Six))])

CoupledRk4Stage4(f, x, y, h, k1, k2, k3) ==
  IF ~k3.ok THEN CStepThrown(k3.msg)
  ELSE CoupledRk4Sum(x, y, h, k1, k2, k3.v,
                     CoupledEval(f, FAdd(x, h), MapStep(y, h, k3.v, FALSE)))

CoupledRk4Stage3(f, x, y, h, k1, k2) ==
  IF ~k2.ok THEN CStepThrown(k2.msg)
  ELSE CoupledRk4Stage4(f, x, y, h, k1, k2.v,
                        CoupledEval(f, FAdd(x, FDiv(h, Two)), MapStep(y, h, k2.v, TRUE)))

CoupledRk4Stage2(f, x, y, h, k1) ==
  IF ~k1.ok THEN CStepThrown(k1.msg)
  ELSE CoupledRk4Stage3(f, x, y, h, k1.v,
                        CoupledEval(f, FAdd(x, FDiv(h, Two)), MapStep(y, h, k1.v, TRUE)))

CoupledRk4(f, x, y, h) == CoupledRk4Stage2(f, x, y, h, CoupledEval(f, x, y))

\* CoupledNumericalMethods.getMethod
CoupledGetMethod(name) ==
  IF toLowerCase(name) \in MethodKeys THEN toLowerCase(name) ELSE "undefined"

\* method.solve(f, t, y, h) of the coupled registry.
CoupledMethodSolve(method, f, x, y, h) ==
  CASE method = "euler" -> CoupledEuler(f, x, y, h)
    [] method = "heun" -> CoupledHeun(f, x, y, h)
    [] OTHER -> CoupledRk4(f, x, y, h)

\* method.name of the coupled registry.
CoupledMethodName(method) ==
  CASE method = "euler" -> "Euler's Method (Coupled)"
    [] method = "heun" -> "Heun's Method (Coupled)"
    [] OTHER -> "Runge-Kutta 4th Order (Coupled)"

(***************************************************************************)
(* Solutions                                                               *)
(***************************************************************************)
\* options.maxIterations ?? 1000000; an absent option is the empty sequence.
DefaultMaxIterations == 1000000

\* A cap that does not read options.maxIterations.
MaxIterationsIgnored(options) == DefaultMaxIterations

MaxIterationsOf(options) ==
  IF options.maxIterations = <<>> THEN DefaultMaxIterations ELSE options.maxIterations[1]

\* options.method ?? 'rk4'; an absent option is the string "absent".
MethodOrDefault(options) == IF options.method = "absent" THEN "rk4" ELSE options.method

\* The loop yields to the scheduler when iterations % 1000 === 0.
YieldEvery == 1000

NoResult == [points |-> <<>>, method |-> "", success |-> FALSE, error |-> <<>>,
             metadata |-> [totalPoints |-> -1]]

\* A failed Solution that loses its error message.
FailureWithoutError(options, methodField, error) ==
  [points |-> <<>>, method |-> methodField, success |-> FALSE, error |-> <<>>,
   metadata |-> [totalPoints |-> 0, stepSize |-> options.stepSize,
                 domain |-> <<options.t0, options.tEnd>>,
                 range |-> <<Zero, Zero>>]]

\* The failed Solution every error path of ODESolver builds.
Failure(options, methodField, error) ==
  [points |-> <<>>, method |-> methodField, success |-> FALSE, error |-> error,
   metadata |-> [totalPoints |-> 0, stepSize |-> options.stepSize,
                 domain |-> <<options.t0, options.tEnd>>,
                 range |-> <<Zero, Zero>>]]

\* The failed Solution of CoupledODESolver; options.y0.map throws a TypeError
\* when y0 is not an array, and then no Solution is built.
CoupledFailureThrows(options) == ~options.y0.isArray
CoupledFailure(options, methodField, error) ==
  [points |-> <<>>, method |-> methodField, success |-> FALSE, error |-> error,
   metadata |-> [totalPoints |-> 0, stepSize |-> options.stepSize,
                 domain |-> <<options.t0, options.tEnd>>,
                 ranges |-> [k \in DOMAIN options.y0.items |-> <<Zero, Zero>>]]]

\* Math.min / Math.max over a non-empty sequence of finite numbers, taken
\* over the two halves of the sequence.
RECURSIVE MinOf(_)
MinOf(q) ==
  IF Len(q) = 1 THEN q[1]
  ELSE LET a == MinOf(SubSeq(q, 1, Len(q) \div 2))
           b == MinOf(SubSeq(q, Len(q) \div 2 + 1, Len(q)))
       IN  IF FLt(b, a) THEN b ELSE a
RECURSIVE MaxOf(_)
MaxOf(q) ==
  IF Len(q) = 1 THEN q[1]
  ELSE LET a == MaxOf(SubSeq(q, 1, Len(q) \div 2))
           b == MaxOf(SubSeq(q, Len(q) \div 2 + 1, Len(q)))
       IN  IF FGt(b, a) THEN b ELSE a

\* A Solution whose range is taken over the points the steps added only.
SuccessOverSteps(options, method, points) ==
  [points |-> points, method |-> MethodName(method), success |-> TRUE, error |-> <<>>,
   metadata |-> [totalPoints |-> Len(points), stepSize |-> options.stepSize,
                 domain |-> <<options.t0, options.tEnd>>,
                 range |-> <<MinOf([k \in 1..IMax(1, Len(points) - 1) |->
                                      points[IMin(Len(points), k + 1)].y]),
                             MaxOf([k \in 1..IMax(1, Len(points) - 1) |->
                                      points[IMin(Len(points), k + 1)].y])>>]]

\* The Solution numericalSolve returns after the loop (scalar).
Success(options, method, points) ==
  [points |-> points, method |-> MethodName(method), success |-> TRUE, error |-> <<>>,
   metadata |-> [totalPoints |-> Len(points), stepSize |-> options.stepSize,
                 domain |-> <<options.t0, options.tEnd>>,
                 range |-> <<MinOf([k \in DOMAIN points |-> points[k].y]),
                             MaxOf([k \in DOMAIN points |-> points[k].y])>>]]

\* The Solution numericalSolve returns after the loop (coupled): p.y[i] ?? 0.
CoupledSuccess(options, method, points) ==
  [points |-> points, method |-> CoupledMethodName(method), success |-> TRUE, error |-> <<>>,
   metadata |-> [totalPoints |-> Len(points), stepSize |-> options.stepSize,
                 domain |-> <<options.t0, options.tEnd>>,
                 ranges |-> [i \in DOMAIN options.y0.items |->
                               <<MinOf([k \in DOMAIN points |-> At(points[k].y, i)]),
                                 MaxOf([k \in DOMAIN points |-> At(points[k].y, i)])>>]]]

(***************************************************************************)
(* The integration loop of numericalSolve                                  *)
(***************************************************************************)
\* const h = tEnd > t0 ? Math.abs(stepSize) : -Math.abs(stepSize)
SignedStep(options) ==
  IF FGt(options.tEnd, options.t0) THEN FAbs(options.stepSize)
  ELSE FNeg(FAbs(options.stepSize))

isForward(options) == FGt(options.tEnd, options.t0)

\* The break tests with > and < in place of >= and <=.
ReachedEndStrict(options, t) ==
  \/ (FGt(options.tEnd, options.t0) /\ FGt(t, options.tEnd))
  \/ (~FGt(options.tEnd, options.t0) /\ FLt(t, options.tEnd))

\* The two break tests at the head of the loop body.
ReachedEnd(options, t) ==
  \/ (isForward(options) /\ FGe(t, options.tEnd))
  \/ (~isForward(options) /\ FLe(t, options.tEnd))

\* currentH without the adjustment of the last step: always h.
CurrentHUnclamped(options, t) == SignedStep(options)

\* currentH shortened only when the integration goes forward.
CurrentHForwardOnly(options, t) ==
  IF isForward(options) /\ FGt(FAdd(t, SignedStep(options)), options.tEnd)
  THEN FSub(options.tEnd, t)
  ELSE SignedStep(options)

\* currentH: the step, shortened to tEnd - t when it would pass tEnd.
CurrentH(options, t) ==
  IF \/ isForward(options) /\ FGt(FAdd(t, SignedStep(options)), options.tEnd)
     \/ ~isForward(options) /\ FLt(FAdd(t, SignedStep(options)), options.tEnd)
  THEN FSub(options.tEnd, t)
  ELSE SignedStep(options)

\* The instability threshold 1e10.
TenBillion == FMul(HundredThousand, HundredThousand)

StepOutcome(ok, t, y, dydt, msg) == [ok |-> ok, t |-> t, y |-> y, dydt |-> dydt, msg |-> msg]

\* The try block of the scalar loop body: the new point, or the message of
\* the error it throws.
TryDerivative(t, y, r, dydt) ==
  IF ~dydt.ok THEN StepOutcome(FALSE, t, y, Zero, dydt.msg)
  ELSE IF ~IsFinite(dydt.v)
  THEN StepOutcome(FALSE, t, y, Zero, <<"Derivative became non-finite">>)
  ELSE StepOutcome(TRUE, r.t, r.y, dydt.v, <<>>)

TryResult(f, t, y, r) ==
  IF ~r.ok THEN StepOutcome(FALSE, t, y, Zero, r.msg)
  ELSE IF ~IsFinite(r.t) \/ ~IsFinite(r.y)
  THEN StepOutcome(FALSE, t, y, Zero, <<"Non-finite values encountered">>)
  ELSE IF FGt(FAbs(r.y), TenBillion)
  THEN StepOutcome(FALSE, t, y, Zero, <<"Solution became unstable (|y| > 1e10)">>)
  ELSE TryDerivative(t, y, r, Eval(f, r.t, r.y))

TryStep(f, options, method, t, y) ==
  TryResult(f, t, y, MethodSolve(method, f, t, y, CurrentH(options, t)))

\* The try block of the coupled loop body.
CoupledTryDerivative(t, y, r, dydt) ==
  IF ~dydt.ok THEN StepOutcome(FALSE, t, y, <<>>, dydt.msg)
  ELSE IF \E i \in DOMAIN dydt.v : ~IsFinite(dydt.v[i])
  THEN StepOutcome(FALSE, t, y, <<>>, <<"Derivative became non-finite">>)
  ELSE StepOutcome(TRUE, r.t, r.y, dydt.v, <<>>)

CoupledTryResult(f, t, y, r) ==
  IF ~r.ok THEN StepOutcome(FALSE, t, y, <<>>, r.msg)
  ELSE IF ~IsFinite(r.t) \/ (\E i \in DOMAIN r.y : ~IsFinite(r.y[i]))
  THEN StepOutcome(FALSE, t, y, <<>>, <<"Non-finite values encountered">>)
  ELSE IF \E i \in DOMAIN r.y : FGt(FAbs(r.y[i]), TenBillion)
  THEN StepOutcome(FALSE, t, y, <<>>, <<"Solution became unstable">>)
  ELSE CoupledTryDerivative(t, y, r, CoupledEval(f, r.t, r.y))

CoupledTryStep(f, options, method, t, y) ==
  CoupledTryResult(f, t, y, CoupledMethodSolve(method, f, t, y, CurrentH(options, t)))

(***************************************************************************)
(* Inputs of the model                                                     *)
(***************************************************************************)
\* (t0, tEnd) pairs.
Domains ==
  {<<Zero, One>>, <<One, Zero>>, <<Zero, Zero>>, <<One, Dec(1, 10)>>,
   <<Zero, FromInt(2000)>>, <<NaN, One>>, <<FromInt(3), Dec(1, 10)>>,
   <<Zero, FromInt(10)>>, <<Zero, Dec(100000, 128)>>,
   <<FromInt(32768), FromInt(33280)>>}

StepSizes ==
  {Dec(1, 10), Dec(1, 4), One, Two, Zero, Dec(-1, 10), FromInt(100),
   Dec(1, 65536), Dec(1, 131072), PosInf, Dec(1, 12), Dec(1, 128),
   Dec(1, 100000), FromInt(3)}

ScalarY0s == {One, FromInt(2000000), NaN}

Array(items) == [isArray |-> TRUE, items |-> items]
NotAnArray == [isArray |-> FALSE, items |-> <<>>]
CoupledY0s ==
  {Array(<<One>>), Array(<<One, Zero>>), Array(<<>>), NotAnArray,
   Array(<<One, NaN>>), Array(<<FromInt(2000000)>>)}

Methods == {"euler", "heun", "rk4", "RK4", "bogus", "absent"}

Caps == {<<>>, <<1>>, <<2>>, <<3>>, <<10>>, <<11>>, <<12>>, <<1000>>}

ScalarExpressions ==
  {<<"t", "+", "y">>, <<"1">>, <<"t", "+", "z">>, <<"t", "+">>,
   <<"1", "/", "(", "t", "-", "1", ")">>, <<"2z", "+", "t">>,
   <<"sin", "(", "t", ")", "*", "y">>, <<"t", "^", "2", "+", "y", "^", "3">>}

CoupledExpressions ==
  {<< <<"y2">>, <<"-", "y1">> >>, << <<"t", "+", "y1">> >>, << >>,
   << <<"y2">>, <<"z">> >>, << <<"t", "+">> >>, << <<"y3">> >>,
   << <<"y0">>, <<"y1">> >>}

ScalarFunctions ==
  {Compiled(<<"t", "+", "y">>), Compiled(<<"1">>), UserFn("throws"), UserFn("nan"),
   UserFn("throwsLate")}

CoupledFunctions ==
  {Compiled(<< <<"y2">>, <<"-", "y1">> >>), Compiled(<< <<"t", "+", "y1">> >>),
   UserFn("throws"), UserFn("nan"), UserFn("throwsLate"), UserFn("surplus")}

Options(d, h, y0, m, cap) ==
  [t0 |-> d[1], tEnd |-> d[2], stepSize |-> h, y0 |-> y0, method |-> m,
   maxIterations |-> cap]

AllOptions(s) ==
  {Options(d, h, y0, m, cap) :
     d \in Domains, h \in StepSizes,
     y0 \in (IF s = "ODESolver" THEN ScalarY0s ELSE CoupledY0s),
     m \in Methods, cap \in Caps}

\* The options of the model that take a short run: the iteration cap or the
\* number of steps across the domain is small.
ShortRun(o) ==
  \/ (o.maxIterations # <<>> /\ o.maxIterations[1] <= 12)
  \/ ~IsFinite(o.stepSize) \/ ~IsFinite(o.t0) \/ ~IsFinite(o.tEnd)
  \/ FLe(o.stepSize, Zero)
  \/ FLe(FDiv(FAbs(FSub(o.tEnd, o.t0)), o.stepSize), FromInt(20))

\* Every option record with one method and cap (the validation sweep).
Sweep(o) == o.method = "euler" /\ o.maxIterations = <<3>>

\* The options on which every method, evaluator and cap is tried.
Integrated(o) ==
  /\ o.method \in {"euler", "heun", "rk4", "absent"}
  /\ o.y0 \in {One, Array(<<One>>), Array(<<One, Zero>>)}
  /\ <<o.t0, o.tEnd, o.stepSize>> \in
       {<<Zero, One, Dec(1, 10)>>, <<One, Zero, Dec(1, 10)>>, <<Zero, One, One>>,
        <<One, Dec(1, 10), Dec(1, 4)>>, <<Zero, One, Dec(1, 4)>>,
        <<FromInt(3), Dec(1, 10), Dec(1, 4)>>, <<Zero, One, Dec(1, 12)>>}
  /\ ShortRun(o)

\* The options on which the stages of solve are compared.
Staged(o) ==
  /\ o.maxIterations = <<>>
  /\ o.y0 \in {One, Array(<<One, Zero>>), NotAnArray}
  /\ <<o.t0, o.tEnd, o.stepSize>> \in
       {<<Zero, One, Dec(1, 10)>>, <<Zero, Zero, Dec(1, 10)>>, <<Zero, One, Two>>}

\* One run long enough to reach the yield at iteration 1000.
LongRun(o) ==
  /\ o.method = "euler" /\ o.maxIterations = <<1000>>
  /\ o.y0 \in {One, Array(<<One>>)}
  /\ <<o.t0, o.tEnd, o.stepSize>> = <<Zero, One, Dec(1, 65536)>>

\* One run from a t0 so large that t0 + stepSize is rounded to t0.
Stalling(o) ==
  /\ o.method = "euler" /\ o.maxIterations \in {<<12>>, <<1000>>}
  /\ o.y0 \in {One, Array(<<One>>)}
  /\ <<o.t0, o.tEnd, o.stepSize>> = <<FromInt(32768), FromInt(33280), FromInt(3)>>

Call(s, entry, expression, f, options) ==
  [solver |-> s, entry |-> entry, expression |-> expression, f |-> f,
   options |-> options]

Solvers == {"ODESolver", "CoupledODESolver"}

NoFunction == UserFn("none")

\* The calls of the model on one solver.
Inputs(s) ==
  {Call(s, "solveWithFunction", <<>>, fn, o) :
     fn \in (IF s = "ODESolver" THEN ScalarFunctions ELSE CoupledFunctions),
     o \in {x \in AllOptions(s) : Integrated(x)}}
  \cup
  {Call(s, "solveWithFunction", <<>>, fn, o) :
     fn \in (IF s = "ODESolver" THEN {Compiled(<<"1">>)}
             ELSE {Compiled(<< <<"t", "+", "y1">> >>)}),
     o \in {x \in AllOptions(s) : Sweep(x) \/ LongRun(x) \/ Stalling(x)}}
  \cup
  {Call(s, "solve", e, NoFunction, o) :
     e \in (IF s = "ODESolver" THEN ScalarExpressions ELSE CoupledExpressions),
     o \in {x \in AllOptions(s) : Staged(x)}}

(***************************************************************************)
(* The state machine of one solver instance                                *)
(***************************************************************************)
VARIABLES
  solver,     \* the class of the instance: ODESolver or CoupledODESolver
  pc,         \* where the call in progress stands
  call,       \* the arguments of the call in progress
  f,          \* the evaluator in use (parsedEq.evaluate or the argument f)
  method,     \* the registry key resolved by getMethod
  t, y,       \* the locals t and y of numericalSolve
  iterations, \* the local loop counter of numericalSolve
  points,     \* the local points array of numericalSolve
  result,     \* the Solution the promise resolved with
  stages,     \* the stages the call has entered, in order
  stepCalls,  \* the number of method.solve invocations of the call
  tasks,      \* concurrent solve calls: the locals and the promise of each
  thread,     \* the call that is running on the one thread (0: none)
  lastIndex,  \* EquationParser.VARIABLE_PATTERN.lastIndex (static, shared)
  objects,    \* Calculator: the CalculationResult objects created so far
  history,    \* Calculator: this.history, the objects it refers to
  copy,       \* the array a caller got from getHistory (<<0>>: none)
  returned,   \* the calls that returned a value since the last clearHistory
  outcome,    \* how the last Calculator call ended
  estimate,   \* the last call of estimateStepSize and what it returned
  web,        \* ODEWebApp: currentSolution, the chart, the loading and error divs
  requests,   \* ODEWebApp: the form submissions made, in order
  lastAction  \* the most recent action of the user of the web app

\* The state of one solver call, and the state outside it.
callVars == <<solver, pc, call, f, method, t, y, iterations, points, result, stages, stepCalls>>
taskVars == <<tasks, thread, lastIndex>>
calcVars == <<objects, history, copy, returned, outcome>>
webVars == <<web, requests, lastAction>>
appVars == <<estimate, webVars>>
others == <<taskVars, calcVars, appVars>>
vars == <<callVars, others>>

IsScalar == solver = "ODESolver"

\* The value of call while no call is in progress.
NoCall ==
  Call(solver, "solveWithFunction", <<>>, NoFunction,
       Options(<<Zero, Zero>>, Zero, IF IsScalar THEN Zero ELSE Array(<<>>),
               "absent", <<>>))

\* No state of the instance outlives a call: the value of the locals of
\* numericalSolve while no call is in progress.
NoY == IF IsScalar THEN Zero ELSE <<>>

\* The ids of the concurrent calls.
TaskIds == {1, 2}

\* A call that has not been made.
NoTask ==
  [pc |-> "idle",
   call |-> Call("ODESolver", "solveWithFunction", <<>>, NoFunction,
                 Options(<<Zero, Zero>>, Zero, Zero, "absent", <<>>)),
   f |-> NoFunction, method |-> "undefined", t |-> Zero, y |-> Zero,
   iterations |-> 0, points |-> <<>>, result |-> NoResult]

\* estimateStepSize has not been called.
NoEstimate ==
  [class |-> "none", f |-> NoFunction, x0 |-> Zero, y0 |-> Zero,
   domain |-> <<Zero, Zero>>, v |-> Zero]

\* Nothing runs beside the one call.
NoOthers ==
  /\ tasks = [i \in TaskIds |-> NoTask]
  /\ thread = 0
  /\ lastIndex = 0
  /\ objects = <<>>
  /\ history = <<>>
  /\ copy = <<0>>
  /\ returned = <<>>
  /\ outcome = [ok |-> TRUE, v |-> Zero, msg |-> <<>>]
  /\ estimate = NoEstimate
  /\ web = [currentSolution |-> 0, chart |-> 0, loading |-> FALSE, error |-> <<>>,
            currentMode |-> "single"]
  /\ requests = <<>>
  /\ lastAction = [kind |-> "none", id |-> 0]

Init ==
  /\ NoOthers
  /\ solver \in Solvers
  /\ pc = "idle"
  /\ call = NoCall
  /\ f = NoFunction
  /\ method = "undefined"
  /\ t = Zero
  /\ y = NoY
  /\ iterations = 0
  /\ points = <<>>
  /\ result = NoResult
  /\ stages = <<>>
  /\ stepCalls = 0

\* The promise resolves with a failed Solution, or rejects when building
\* the failed Solution throws (in the try block and again in the catch).
Fail(methodField, error) ==
  /\ pc' = IF ~IsScalar /\ CoupledFailureThrows(call.options) THEN "rejected" ELSE "returned"
  /\ result' = IF IsScalar THEN Failure(call.options, methodField, error)
               ELSE IF CoupledFailureThrows(call.options) THEN NoResult
               ELSE CoupledFailure(call.options, methodField, error)

\* A caller invokes solve or solveWithFunction; every local starts afresh.
Invoke ==
  /\ pc = "idle"
  /\ \E c \in Inputs(solver) :
       /\ call' = c
       /\ f' = c.f
       /\ pc' = IF c.entry = "solve" THEN "parse" ELSE "validate"
  /\ solver' = solver
  /\ method' = "undefined"
  /\ t' = Zero
  /\ y' = NoY
  /\ iterations' = 0
  /\ points' = <<>>
  /\ result' = NoResult
  /\ stages' = <<>>
  /\ stepCalls' = 0
  /\ UNCHANGED others

\* solve: parse the expression(s); an invalid parse is the result.
Parsed(parsedEq) ==
  IF ~parsedEq.valid
  THEN /\ Fail(MethodOrDefault(call.options), parsedEq.error)
       /\ f' = f
  ELSE /\ f' = parsedEq.evaluate
       /\ pc' = "validate"
       /\ result' = result

SolveParse ==
  /\ pc = "parse"
  /\ stages' = Append(stages, "parse")
  /\ Parsed(IF IsScalar THEN parse(call.expression) ELSE parseCoupled(call.expression))
  /\ UNCHANGED <<solver, call, method, t, y, iterations, points, stepCalls>>
  /\ UNCHANGED others

\* solveWithFunction: validate the options.
Validated(validation) ==
  IF ~validation.valid
  THEN Fail(MethodOrDefault(call.options), validation.error)
  ELSE pc' = "resolve" /\ result' = result

Validate ==
  /\ pc = "validate"
  /\ stages' = Append(stages, "validate")
  /\ Validated(IF IsScalar THEN validateOptions(call.options)
               ELSE CoupledValidateOptions(call.options))
  /\ UNCHANGED <<solver, call, f, method, t, y, iterations, points, stepCalls>>
  /\ UNCHANGED others

\* Method resolution that falls back to rk4 when the key is unknown.
ResolveFallingBack ==
  /\ pc = "resolve"
  /\ stages' = Append(stages, "resolve")
  /\ method' = IF getMethod(MethodOrDefault(call.options)) = "undefined" THEN "rk4"
               ELSE getMethod(MethodOrDefault(call.options))
  /\ pc' = "integrate"
  /\ UNCHANGED <<solver, call, f, t, y, iterations, points, result, stepCalls>>
  /\ UNCHANGED others

\* solveWithFunction: resolve the method by key.
Resolve ==
  /\ pc = "resolve"
  /\ stages' = Append(stages, "resolve")
  /\ LET methodName == MethodOrDefault(call.options)
         found == IF IsScalar THEN getMethod(methodName) ELSE CoupledGetMethod(methodName)
     IN  IF found = "undefined"
         THEN /\ Fail(methodName, <<"Unknown numerical method: ", methodName>>)
              /\ method' = method
         ELSE /\ method' = found
              /\ pc' = "integrate"
              /\ result' = result
  /\ UNCHANGED <<solver, call, f, t, y, iterations, points, stepCalls>>
  /\ UNCHANGED others

\* numericalSolve up to the loop: the initial point with f(t0, y0).
Started(t0, y0, d) ==
  IF ~d.ok
  THEN /\ Fail(MethodOrDefault(call.options), <<"Computation error: ">> \o d.msg)
       /\ UNCHANGED <<t, y, points>>
  ELSE /\ t' = t0
       /\ y' = y0
       /\ points' = <<[t |-> t0, y |-> y0, dydt |-> d.v]>>
       /\ pc' = "loop"
       /\ result' = result

Start ==
  /\ pc = "integrate"
  /\ stages' = Append(stages, "integrate")
  /\ IF IsScalar
     THEN Started(call.options.t0, call.options.y0,
                  Eval(f, call.options.t0, call.options.y0))
     ELSE Started(call.options.t0, call.options.y0.items,
                  CoupledEval(f, call.options.t0, call.options.y0.items))
  /\ iterations' = 0
  /\ UNCHANGED <<solver, call, f, method, stepCalls>>
  /\ UNCHANGED others

\* One pass of the loop body that takes a step.
Stepped(r) ==
  IF ~r.ok
  THEN /\ Fail(MethodOrDefault(call.options),
               <<"Computation error: ", "Integration failed at step ",
                 ToString(iterations + 1), ": ">> \o r.msg)
       /\ UNCHANGED <<t, y, points>>
  ELSE /\ t' = r.t
       /\ y' = r.y
       /\ points' = Append(points, [t |-> r.t, y |-> r.y, dydt |-> r.dydt])
       /\ pc' = IF (iterations + 1) % YieldEvery = 0 THEN "yield" ELSE "loop"
       /\ result' = result

LoopStep ==
  /\ pc = "loop"
  /\ iterations < MaxIterationsOf(call.options)
  /\ ~ReachedEnd(call.options, t)
  /\ iterations' = iterations + 1
  /\ stepCalls' = stepCalls + 1
  /\ Stepped(IF IsScalar THEN TryStep(f, call.options, method, t, y)
             ELSE CoupledTryStep(f, call.options, method, t, y))
  /\ UNCHANGED <<solver, call, f, method, stages>>
  /\ UNCHANGED others

\* What numericalSolve does once the loop is left.
AfterLoop(n) ==
  IF n >= MaxIterationsOf(call.options)
  THEN Fail(MethodOrDefault(call.options),
            <<"Computation error: ", "Maximum iterations (",
              ToString(MaxIterationsOf(call.options)),
              ") reached without convergence">>)
  ELSE /\ pc' = "returned"
       /\ result' = IF IsScalar THEN Success(call.options, method, points)
                    ELSE CoupledSuccess(call.options, method, points)

\* The pass of the loop body that finds t at or past tEnd and breaks.
LoopBreak ==
  /\ pc = "loop"
  /\ iterations < MaxIterationsOf(call.options)
  /\ ReachedEnd(call.options, t)
  /\ iterations' = iterations + 1
  /\ AfterLoop(iterations + 1)
  /\ UNCHANGED <<solver, call, f, method, t, y, points, stages, stepCalls>>
  /\ UNCHANGED others

\* The loop condition fails: the iteration cap is used up.
LoopExhausted ==
  /\ pc = "loop"
  /\ iterations >= MaxIterationsOf(call.options)
  /\ AfterLoop(iterations)
  /\ UNCHANGED <<solver, call, f, method, t, y, iterations, points, stages, stepCalls>>
  /\ UNCHANGED others

\* The timer of the yield fires and the loop goes on.
Resume ==
  /\ pc = "yield"
  /\ pc' = "loop"
  /\ UNCHANGED <<solver, call, f, method, t, y, iterations, points, result, stages, stepCalls>>
  /\ UNCHANGED others

\* The caller has taken the outcome; the locals of the call are gone.
Settle ==
  /\ pc \in {"returned", "rejected"}
  /\ pc' = "idle"
  /\ solver' = solver
  /\ call' = NoCall
  /\ f' = NoFunction
  /\ method' = "undefined"
  /\ t' = Zero
  /\ y' = NoY
  /\ iterations' = 0
  /\ points' = <<>>
  /\ result' = NoResult
  /\ stages' = <<>>
  /\ stepCalls' = 0
  /\ UNCHANGED others

Next ==
  \/ Invoke
  \/ SolveParse
  \/ Validate
  \/ Resolve
  \/ Start
  \/ LoopStep
  \/ LoopBreak
  \/ LoopExhausted
  \/ Resume
  \/ Settle

Spec == Init /\ [][Next]_vars

\* The places of a call: idle, the stages, the loop, its yield, the outcomes.
Places ==
  {"idle", "parse", "validate", "resolve", "integrate", "loop", "yield",
   "returned", "rejected"}

TypeOK ==
  /\ pc \in Places
  /\ iterations >= 0 /\ iterations <= MaxIterationsOf(call.options)
  /\ stepCalls <= iterations

(***************************************************************************)
(* Scheduling.  The runtime runs every continuation of an async function   *)
(* and fires every timer: a call in progress always takes its next step.   *)
(* Nothing obliges a caller to start a call.                               *)
(*                                                                         *)
(* Every action but Invoke is a step of the call in progress; each one     *)
(* changes pc or iterations, and one of them is enabled whenever pc is not *)
(* "idle" (their guards cover every such pc).  Continue is that step seen  *)
(* through pc and iterations alone, so weak fairness of Continue is weak   *)
(* fairness of the disjunction of these actions.                           *)
(***************************************************************************)
Continue ==
  /\ pc # "idle"
  /\ pc' \in Places
  /\ iterations' \in {0, iterations + 1}

FairSpec == Spec /\ WF_<<pc, iterations>>(Continue)

(***************************************************************************)
(* Vocabulary of the properties                                            *)
(***************************************************************************)
\* The call in progress has entered the stage.
Entered(stage) == \E k \in DOMAIN stages : stages[k] = stage

\* The call is over: its promise resolved or rejected.
Over == pc \in {"returned", "rejected"}

\* A call is in progress.
Running == pc \in {"parse", "validate", "resolve", "integrate", "loop", "yield"}

\* The initial condition of the call, as the points carry it.
InitialY == IF IsScalar THEN call.options.y0 ELSE call.options.y0.items

\* Math.abs(tEnd - t0) of the call.
DomainLength == FAbs(FSub(call.options.tEnd, call.options.t0))

\* The advisory of NumericalMethods on the options of the call.
Advisory ==
  validateStepSize(call.options.stepSize, call.options.t0, call.options.tEnd)

\* The checks of ODESolver.validateOptions that come before the advisory
\* all pass on the options of the call.
EarlierChecksPass ==
  /\ IsFinite(call.options.t0) /\ IsFinite(call.options.y0)
  /\ IsFinite(call.options.tEnd) /\ IsFinite(call.options.stepSize)
  /\ FGt(call.options.stepSize, Zero)
  /\ FLe(call.options.stepSize, DomainLength)
  /\ call.options.t0 # call.options.tEnd
  /\ FLe(DomainLength, Thousand)
  /\ FLe(FAbs(call.options.y0), Million)

\* The relative spacing of the numbers: 2^(1 - Precision).
RoundingUnit == [m |-> 1, e |-> 1 - Precision]

\* The last point of the returned Solution.
LastPoint == result.points[Len(result.points)]

\* The error of the iteration cap.
CapError ==
  <<"Computation error: ", "Maximum iterations (",
    ToString(MaxIterationsOf(call.options)), ") reached without convergence">>

(***************************************************************************)
(* C1                                                                      *)
(***************************************************************************)
\* C1 as stated: a Solution with success = true has a non-empty points
\* sequence, its first point is (t0, y0) exactly, and the t of its last
\* point equals tEnd (never past it).
C1_LandsOnEnd ==
  (pc = "returned" /\ result.success) =>
     /\ Len(result.points) > 0
     /\ result.points[1].t = call.options.t0
     /\ result.points[1].y = InitialY
     /\ LastPoint.t = call.options.tEnd

\* C1 amended: a Solution with success = true has a non-empty points
\* sequence, its first point is (t0, y0) exactly, and the t of its last
\* point is at or past tEnd in the direction of integration and differs
\* from tEnd by no more than the rounding of t + (tEnd - t).
C1_ReachesEnd ==
  (pc = "returned" /\ result.success) =>
     /\ Len(result.points) > 0
     /\ result.points[1].t = call.options.t0
     /\ result.points[1].y = InitialY
     /\ ReachedEnd(call.options, LastPoint.t)
     /\ FLe(FAbs(FSub(LastPoint.t, call.options.tEnd)),
            FMul(RoundingUnit, FAdd(FAbs(call.options.t0), FAbs(call.options.tEnd))))

\* A successful Solution whose last step was shortened and landed past tEnd.
C1_Witness ==
  /\ pc = "returned" /\ result.success
  /\ Len(result.points) > 2
  /\ LastPoint.t # call.options.tEnd

(***************************************************************************)
(* C2                                                                      *)
(***************************************************************************)
\* C2: every Solution returned with success = false has points = [], a
\* non-empty error and metadata.totalPoints = 0, whichever stage failed;
\* the points accumulated before the failure are not returned.
C2_FailureIsEmpty ==
  (pc = "returned" /\ ~result.success) =>
     /\ result.points = <<>>
     /\ result.error # <<>>
     /\ result.metadata.totalPoints = 0

\* A failed Solution of a call that had accumulated points beyond the
\* initial one when it failed.
C2_Witness ==
  /\ pc = "returned" /\ ~result.success
  /\ Len(points) > 1
  /\ result.points = <<>>

(***************************************************************************)
(* C3                                                                      *)
(***************************************************************************)
\* C3 as stated: no call throws or rejects; the caller of every call that
\* is over holds a Solution, and a failed one carries an error message.
C3_NeverRejects ==
  /\ pc # "rejected"
  /\ (pc = "returned" => (result # NoResult /\ (~result.success => result.error # <<>>)))

\* A coupled call whose y0 is not an array, rejected.
C3_Rejected ==
  /\ pc = "rejected"
  /\ solver = "CoupledODESolver"
  /\ ~call.options.y0.isArray

(***************************************************************************)
(* C4                                                                      *)
(***************************************************************************)
\* C4 as stated: on ODESolver, with every other option within bounds, a
\* stepSize equal to |tEnd - t0| passes option validation and the call goes
\* on to integration (its method key being known), and a stepSize greater
\* than |tEnd - t0| ends in a failed Solution.
C4_FullDomainStepAccepted ==
  (/\ IsScalar /\ pc = "returned" /\ Entered("validate")
   /\ IsFinite(call.options.t0) /\ IsFinite(call.options.y0)
   /\ IsFinite(call.options.tEnd) /\ IsFinite(call.options.stepSize)
   /\ call.options.t0 # call.options.tEnd
   /\ FLe(DomainLength, Thousand)
   /\ FLe(FAbs(call.options.y0), Million)) =>
     /\ (call.options.stepSize = DomainLength =>
           /\ Entered("resolve")
           /\ (getMethod(MethodOrDefault(call.options)) # "undefined"
                 => Entered("integrate")))
     /\ (FGt(call.options.stepSize, DomainLength) =>
           (~result.success /\ ~Entered("resolve")))

\* An ODESolver call with stepSize = |tEnd - t0| failed by option validation.
C4_FullDomainStepRejected ==
  /\ IsScalar /\ pc = "returned" /\ ~result.success
  /\ call.options.stepSize = DomainLength
  /\ stages[Len(stages)] = "validate"
  /\ EarlierChecksPass

(***************************************************************************)
(* C5                                                                      *)
(***************************************************************************)
\* C5 as stated: on both solvers, whatever stepSize, y0 and method are, a
\* call with t0 = tEnd that comes to option validation returns a Solution
\* with success = false from it, and no step function is invoked.
C5_EqualEndsFail ==
  (Over /\ Entered("validate") /\ call.options.t0 = call.options.tEnd) =>
     /\ pc = "returned"
     /\ ~result.success
     /\ stages[Len(stages)] = "validate"
     /\ stepCalls = 0

\* A coupled call with t0 = tEnd that returned no Solution.
C5_EqualEndsRejected ==
  /\ pc = "rejected"
  /\ call.options.t0 = call.options.tEnd
  /\ stages[Len(stages)] = "validate"

(***************************************************************************)
(* C6                                                                      *)
(***************************************************************************)
\* C6 as stated: on ODESolver, whenever the advisory is valid = false the
\* call returns success = false with the advisory's warning as its error
\* and takes no step; an advisory that only warns is accepted.
C6_AdvisoryIsTheError ==
  (IsScalar /\ pc = "returned" /\ Entered("validate")) =>
     /\ (~Advisory.valid =>
           /\ ~result.success
           /\ result.error = Advisory.warning
           /\ stepCalls = 0)
     /\ ((EarlierChecksPass /\ Advisory.valid) => Entered("resolve"))

\* C6 amended: on ODESolver, whenever the advisory is valid = false the
\* call returns success = false from option validation and takes no step;
\* its error is the advisory's warning when the checks before the advisory
\* pass (otherwise it is the error of the first of those checks to fail);
\* an advisory that only warns is accepted.
C6_AdvisoryRejects ==
  (IsScalar /\ pc = "returned" /\ Entered("validate")) =>
     /\ (~Advisory.valid =>
           /\ ~result.success
           /\ stages[Len(stages)] = "validate"
           /\ result.error = (IF EarlierChecksPass THEN Advisory.warning
                              ELSE validateOptions(call.options).error)
           /\ stepCalls = 0)
     /\ ((EarlierChecksPass /\ Advisory.valid) => Entered("resolve"))

\* An ODESolver call rejected with the advisory's warning as its error.
C6_Witness ==
  /\ IsScalar /\ pc = "returned" /\ Entered("validate")
  /\ EarlierChecksPass
  /\ ~Advisory.valid
  /\ result.error = Advisory.warning

(***************************************************************************)
(* C7                                                                      *)
(***************************************************************************)
\* C7 as stated: for every (t0, tEnd, stepSize) and finite y, the coupled
\* validateOptions with y0 = [y] accepts the options if and only if the
\* scalar validateOptions with y0 = y accepts them.
C7_ValidationMirrors ==
  (/\ pc = "validate" /\ solver = "CoupledODESolver"
   /\ call.options.y0.isArray
   /\ Len(call.options.y0.items) = 1
   /\ IsFinite(call.options.y0.items[1])) =>
     (CoupledValidateOptions(call.options).valid
        <=> validateOptions([call.options EXCEPT !.y0 = call.options.y0.items[1]]).valid)

\* Options with y0 = [y] the coupled solver has accepted and the scalar
\* validateOptions refuses with y0 = y.
C7_CoupledAcceptsAlone ==
  /\ solver = "CoupledODESolver" /\ Entered("resolve")
  /\ call.options.y0.isArray
  /\ Len(call.options.y0.items) = 1
  /\ ~validateOptions([call.options EXCEPT !.y0 = call.options.y0.items[1]]).valid

(***************************************************************************)
(* C8                                                                      *)
(***************************************************************************)
\* C8 as stated: a call whose trajectory has reached tEnd after k accepted
\* steps, k <= maxIterations, returns success = true; the error of the
\* iteration cap is returned only when tEnd is not reached within
\* maxIterations steps.
C8_CapOnlyWhenExceeded ==
  (pc = "returned" /\ Len(points) > 0) =>
     /\ ((/\ ReachedEnd(call.options, t)
          /\ Len(points) - 1 <= MaxIterationsOf(call.options)) => result.success)
     /\ (result.error = CapError => ~ReachedEnd(call.options, t))

\* A call failed by the iteration cap although its trajectory is at tEnd
\* after fewer steps than maxIterations.
C8_ReachedButFailed ==
  /\ pc = "returned" /\ ~result.success
  /\ result.error = CapError
  /\ ReachedEnd(call.options, t)
  /\ stepCalls < MaxIterationsOf(call.options)

(***************************************************************************)
(* C9                                                                      *)
(***************************************************************************)
\* How far a call has come: the stages in order, the outcome last.
StageOf(place) ==
  CASE place = "idle" -> 0
    [] place = "parse" -> 1
    [] place = "validate" -> 2
    [] place = "resolve" -> 3
    [] place = "integrate" -> 4
    [] place \in {"loop", "yield"} -> 5
    [] place \in {"returned", "rejected"} -> 6

\* A step that takes the call forward: to a later stage, to a later
\* iteration of the loop, or from the yield back into the loop.
Advances ==
  \/ StageOf(pc') > StageOf(pc)
  \/ StageOf(pc') = StageOf(pc) /\ iterations' = iterations + 1
  \/ pc = "yield" /\ pc' = "loop" /\ iterations' = iterations

ValuesOf(point) ==
  IF IsScalar THEN {point.t, point.y, point.dydt}
  ELSE {point.t} \cup {point.y[i] : i \in DOMAIN point.y}
                 \cup {point.dydt[i] : i \in DOMAIN point.dydt}

\* The y values of a point.
YsOf(point) == IF IsScalar THEN {point.y} ELSE {point.y[i] : i \in DOMAIN point.y}

\* C11: in every Solution with success = true every point, the initial
\* point included, has finite t, finite y with |y| <= 1e10 (componentwise
\* for coupled) and finite dydt.
C11_AllFinite ==
  (pc = "returned" /\ result.success) =>
     \A k \in DOMAIN result.points :
        /\ \A v \in ValuesOf(result.points[k]) : IsFinite(v)
        /\ \A v \in YsOf(result.points[k]) : FLe(FAbs(v), TenBillion)

\* A successful Solution whose initial point records a derivative that is
\* not finite.
C11_NonFiniteReturned ==
  /\ pc = "returned" /\ result.success
  /\ \E v \in ValuesOf(result.points[1]) : ~IsFinite(v)

(***************************************************************************)
(* C12                                                                     *)
(***************************************************************************)
\* C12: in every successful coupled Solution every point's y has exactly
\* options.y0.length components, whatever length the derivative vector of
\* the evaluator has, and metadata.ranges has exactly one [min, max] pair
\* per component of y0.
C12_LengthKept ==
  (~IsScalar /\ pc = "returned" /\ result.success) =>
     /\ \A k \in DOMAIN result.points :
           Len(result.points[k].y) = Len(call.options.y0.items)
     /\ DOMAIN result.metadata.ranges = DOMAIN call.options.y0.items
     /\ \A i \in DOMAIN result.metadata.ranges : Len(result.metadata.ranges[i]) = 2

\* A successful coupled Solution with steps taken whose evaluator returns
\* derivative vectors of another length than y0.
C12_Witness ==
  /\ ~IsScalar /\ pc = "returned" /\ result.success
  /\ Len(result.points) > 1
  /\ \E k \in DOMAIN result.points :
        Len(result.points[k].dydt) # Len(call.options.y0.items)

(***************************************************************************)
(* C13                                                                     *)
(***************************************************************************)
\* The evaluator of the call returns, at the initial condition, a derivative
\* vector of another length than the state vector.
LengthMismatch ==
  /\ CoupledEval(f, call.options.t0, call.options.y0.items).ok
  /\ Len(CoupledEval(f, call.options.t0, call.options.y0.items).v)
       # Len(call.options.y0.items)

\* C13: a coupled call whose evaluator returns a derivative vector of
\* another length than the state vector fails with an integration error.
C13_MismatchFails ==
  (~IsScalar /\ pc = "returned" /\ Entered("integrate") /\ LengthMismatch) =>
     /\ ~result.success
     /\ Len(result.error) >= 2
     /\ result.error[2] = "Integration failed at step "

\* A coupled call with one compiled equation and a y0 of length 2 that
\* returned success = true.
C13_MismatchSucceeds ==
  /\ ~IsScalar /\ pc = "returned" /\ result.success
  /\ f.kind = "compiled" /\ Len(f.tree) = 1
  /\ Len(call.options.y0.items) = 2

(***************************************************************************)
(* C14                                                                     *)
(***************************************************************************)
\* The t values of consecutive points k and k + 1 of the returned Solution
\* are one step apart: the negative step of magnitude stepSize when
\* tEnd < t0, the positive step when tEnd > t0, the last step being the
\* step or tEnd - t.
StepTaken(k) ==
  /\ \/ result.points[k + 1].t =
          FAdd(result.points[k].t,
               IF FLt(call.options.tEnd, call.options.t0)
               THEN FNeg(call.options.stepSize) ELSE call.options.stepSize)
     \/ /\ k + 1 = Len(result.points)
        /\ result.points[k + 1].t =
             FAdd(result.points[k].t, FSub(call.options.tEnd, result.points[k].t))
  /\ IF FLt(call.options.tEnd, call.options.t0)
     THEN FLt(result.points[k + 1].t, result.points[k].t)
     ELSE FGt(result.points[k + 1].t, result.points[k].t)

\* C14 as stated: a successful trajectory is stepped with the negative step
\* of magnitude stepSize when tEnd < t0 and with the positive step when
\* tEnd > t0 (stepSize itself is positive), its first point has t = t0 and
\* its last point has t = tEnd.
C14_BackwardLandsOnEnd ==
  (pc = "returned" /\ result.success) =>
     /\ FGt(call.options.stepSize, Zero)
     /\ \A k \in 1..(Len(result.points) - 1) : StepTaken(k)
     /\ result.points[1].t = call.options.t0
     /\ LastPoint.t = call.options.tEnd

\* C14 amended: as stated, but the last point has t at or past tEnd in the
\* direction of integration and within the rounding of t + (tEnd - t) of
\* tEnd.
C14_BackwardReachesEnd ==
  (pc = "returned" /\ result.success) =>
     /\ FGt(call.options.stepSize, Zero)
     /\ \A k \in 1..(Len(result.points) - 1) : StepTaken(k)
     /\ result.points[1].t = call.options.t0
     /\ IF FLt(call.options.tEnd, call.options.t0)
        THEN FLe(LastPoint.t, call.options.tEnd)
        ELSE FGe(LastPoint.t, call.options.tEnd)
     /\ FLe(FAbs(FSub(LastPoint.t, call.options.tEnd)),
            FMul(RoundingUnit, FAdd(FAbs(call.options.t0), FAbs(call.options.tEnd))))

\* A successful backward ODESolver trajectory whose last step was shortened
\* and whose last t is not tEnd.
C14_Witness ==
  /\ IsScalar /\ pc = "returned" /\ result.success
  /\ FLt(call.options.tEnd, call.options.t0)
  /\ LastPoint.t # call.options.tEnd
  /\ LastPoint.t # FAdd(result.points[Len(result.points) - 1].t,
                        FNeg(call.options.stepSize))

(***************************************************************************)
(* C15                                                                     *)
(***************************************************************************)
\* |tEnd - t0| / stepSize of the call.
StepsAcross == FDiv(DomainLength, call.options.stepSize)

\* C15: a successful solve returns ceil(|tEnd - t0| / stepSize) + 1 points:
\* exactly k + 1 points when the domain length is k times stepSize.
C15_PointCount ==
  (pc = "returned" /\ result.success) =>
     /\ FGe(FromInt(Len(result.points) - 1), StepsAcross)
     /\ FLt(FromInt(Len(result.points) - 2), StepsAcross)

\* A successful ODESolver solve over a domain of k steps that returned
\* k + 2 points.
C15_OnePointMore ==
  /\ IsScalar /\ pc = "returned" /\ result.success
  /\ \E k \in 10..20 :
        /\ StepsAcross = FromInt(k)
        /\ Len(result.points) = k + 2

(***************************************************************************)
(* C16                                                                     *)
(***************************************************************************)
\* The ParsedEquation / ParsedCoupledEquations the call's parse returned.
ParsedOfCall ==
  IF IsScalar THEN parse(call.expression) ELSE parseCoupled(call.expression)

\* The evaluator throws at (t, y) (y alone for ODESolver, [y, y] coupled).
ThrowsAt(evaluate, time, value) ==
  IF IsScalar THEN ~Eval(evaluate, time, value).ok
  ELSE ~CoupledEval(evaluate, time, <<value, value>>).ok

\* C16: every ParsedEquation / ParsedCoupledEquations returned with
\* valid = false carries an evaluator that throws on every call.
C16_InvalidThrows ==
  (pc = "returned" /\ call.entry = "solve" /\ ~ParsedOfCall.valid) =>
     \A time \in {Zero, One, Two} : \A value \in {Zero, One} :
        ThrowsAt(ParsedOfCall.evaluate, time, value)

\* An ODESolver solve ended by a parse whose self-test evaluation failed and
\* whose evaluator returns a number at (0, 1).
C16_LiveEvaluator ==
  /\ IsScalar /\ pc = "returned" /\ call.entry = "solve"
  /\ stages = <<"parse">>
  /\ ~ParsedOfCall.valid
  /\ ParsedOfCall.error[1] = "Function test failed: "
  /\ Eval(ParsedOfCall.evaluate, Zero, One).ok

(***************************************************************************)
(* C17                                                                     *)
(***************************************************************************)
\* The identifiers of the call's expression that are neither t nor y nor an
\* allow-listed function or constant.
Offending == SymbolsOf(call.expression) \ {"t", "y"}

\* C17: for every expression with an identifier that is neither t nor y
\* nor an allow-listed name, EquationParser.parse returns valid = false
\* with the error "Invalid variables found: ..." naming every such
\* identifier, without compiling or evaluating the expression.
C17_OffendersNamed ==
  (IsScalar /\ pc = "returned" /\ call.entry = "solve" /\ Offending # {}) =>
     /\ ~parse(call.expression).valid
     /\ parse(call.expression).error[1] = "Invalid variables found: "
     /\ \A v \in Offending :
           \E k \in DOMAIN parse(call.expression).error :
              parse(call.expression).error[k] = v
     /\ parse(call.expression).evaluate.kind = "invalid"

\* An ODESolver solve of an expression with the identifier z that was
\* compiled and failed in its self-test evaluation.
C17_OffenderEvaluated ==
  /\ IsScalar /\ pc = "returned" /\ call.entry = "solve"
  /\ "z" \in Offending
  /\ ~parse(call.expression).valid
  /\ parse(call.expression).error[1] = "Function test failed: "
  /\ parse(call.expression).evaluate.kind = "compiled"

(***************************************************************************)
(* C18                                                                     *)
(***************************************************************************)
\* The identifiers of the call's N expressions outside {t, y1, ..., yN}.
Outsiders ==
  UNION {SymbolsOf(call.expression[k]) : k \in DOMAIN call.expression}
    \ ({"t"} \cup {YName(i) : i \in DOMAIN call.expression})

\* C18: parseCoupled on N expressions returns valid = false, with an error
\* naming the identifier, whenever an expression references an identifier
\* outside {t, y1, ..., yN}; y0 and yK with K > N are such identifiers.
C18_OutsidersRejected ==
  (~IsScalar /\ pc = "returned" /\ call.entry = "solve" /\ Outsiders # {}) =>
     /\ ~parseCoupled(call.expression).valid
     /\ \E v \in Outsiders : \E k \in DOMAIN parseCoupled(call.expression).error :
           parseCoupled(call.expression).error[k] = v

\* A coupled solve whose expressions reference y0, or yK with K above the
\* number of expressions, and whose parse returned valid = true.
C18_OutsiderAccepted ==
  /\ ~IsScalar /\ pc = "returned" /\ call.entry = "solve"
  /\ Outsiders \cap {"y0", "y2", "y3"} # {}
  /\ parseCoupled(call.expression).valid

(***************************************************************************)
(* C19                                                                     *)
(***************************************************************************)
\* The expression applies a function by name once powers are rewritten.
AppliesFunction(expression) ==
  \E k \in DOMAIN PowRewrite(expression) :
     PowRewrite(expression)[k] \in ALLOWED_FUNCTIONS

\* C19: an expression that applies an allow-listed function, or uses infix
\* power (rewritten to pow), is normalised with every function name still
\* followed by its "(", and parse returns valid = true with variables t, y.
C19_CallsKept ==
  (IsScalar /\ pc = "returned" /\ call.entry = "solve"
     /\ AppliesFunction(call.expression)) =>
     /\ ~FunctionAsValue(normalizeExpression(call.expression))
     /\ parse(call.expression).valid
     /\ parse(call.expression).variables = {"t", "y"}

\* A solve of sin(t) * y or of t^2 + y^3 whose normalised text has "*"
\* between the function name and "(", and whose parse is not valid.
C19_CallBroken ==
  /\ IsScalar /\ pc = "returned" /\ call.entry = "solve"
  /\ AppliesFunction(call.expression)
  /\ FunctionAsValue(normalizeExpression(call.expression))
  /\ ~parse(call.expression).valid
  /\ ~result.success

(***************************************************************************)
(* C20                                                                     *)
(***************************************************************************)
\* The value f(t, y) of the evaluator of the running call.
Slope(x, v) == Eval(f, x, v).v

\* y + h*f(t, y)
EulerFormula(x, v, h) == FAdd(v, FMul(h, Slope(x, v)))

\* y + h/2*(f(t, y) + f(t + h, y + h*f(t, y)))
HeunFormula(x, v, h) ==
  FAdd(v, FMul(FDiv(h, Two),
               FAdd(Slope(x, v), Slope(FAdd(x, h), FAdd(v, FMul(h, Slope(x, v)))))))

\* k1 .. k4 of the classical formula, each from the one before.
K1(x, v, h) == Slope(x, v)
K2(x, v, h) == Slope(FAdd(x, FDiv(h, Two)), FAdd(v, FDiv(FMul(h, K1(x, v, h)), Two)))
K3(x, v, h) == Slope(FAdd(x, FDiv(h, Two)), FAdd(v, FDiv(FMul(h, K2(x, v, h)), Two)))
K4(x, v, h) == Slope(FAdd(x, h), FAdd(v, FMul(h, K3(x, v, h))))

\* y + h*(k1 + 2*k2 + 2*k3 + k4)/6, the quotient by 6 taken last.
RK4Formula(x, v, h) ==
  FAdd(v, FDiv(FMul(h, FAdd(FAdd(FAdd(K1(x, v, h), FMul(Two, K2(x, v, h))),
                                 FMul(Two, K3(x, v, h))),
                            K4(x, v, h))),
               Six))

FormulaOf(m, x, v, h) ==
  CASE m = "euler" -> EulerFormula(x, v, h)
    [] m = "heun" -> HeunFormula(x, v, h)
    [] OTHER -> RK4Formula(x, v, h)

\* The call integrates f = t + y from (0, 1) with h = 0.1.
SimpleODE ==
  /\ f = Compiled(<<"t", "+", "y">>)
  /\ call.options.t0 = Zero /\ call.options.y0 = One
  /\ call.options.stepSize = Dec(1, 10)
  /\ FGt(call.options.tEnd, Zero)

\* C20: each scalar step function returns (t + h, y') with y' given by the
\* formula of its method, for a step h of either sign: at every moment the
\* newest point of a scalar trajectory is the step from the point before it.
\* For f = t + y from (0, 1) with h = 0.1 the Euler step gives exactly 1.1
\* and the RK4 step a value strictly between 1.1 and 1.12.
C20_StepFormulas ==
  (IsScalar /\ method \in MethodKeys) =>
     /\ \A k \in {j \in {Len(points) - 1} : j >= 1} :
          \E h \in {SignedStep(call.options), FSub(call.options.tEnd, points[k].t)} :
             /\ points[k + 1].t = FAdd(points[k].t, h)
             /\ points[k + 1].y = FormulaOf(method, points[k].t, points[k].y, h)
     /\ (SimpleODE /\ Len(points) >= 2 /\ method = "euler") =>
           points[2].y = Dec(11, 10)
     /\ (SimpleODE /\ Len(points) >= 2 /\ method = "rk4") =>
           /\ FGt(points[2].y, Dec(11, 10))
           /\ FLt(points[2].y, Dec(112, 100))

\* An RK4 run of f = t + y from (0, 1) with h = 0.1 that has returned with
\* its first step between 1.1 and 1.12.
C20_Witness ==
  /\ IsScalar /\ pc = "returned" /\ result.success
  /\ SimpleODE /\ method = "rk4" /\ Len(points) >= 2
  /\ FGt(points[2].y, Dec(11, 10))
  /\ FLt(points[2].y, Dec(112, 100))

(***************************************************************************)
(* C21                                                                     *)
(***************************************************************************)
\* The scalar f of which the coupled evaluator g is the one-component form
\* g(t, [y]) = [f(t, y)].
ScalarOf(g) ==
  IF g = Compiled(<< <<"t", "+", "y1">> >>) THEN Compiled(<<"t", "+", "y">>) ELSE g

\* The options of the coupled call as the scalar solver takes them.
ScalarOptions == [call.options EXCEPT !.y0 = call.options.y0.items[1]]

\* A coupled call on one component whose evaluator has a scalar form.
OneComponent ==
  /\ ~IsScalar /\ method \in MethodKeys
  /\ call.options.y0.isArray /\ Len(call.options.y0.items) = 1
  /\ f \in {Compiled(<< <<"t", "+", "y1">> >>), UserFn("throws"), UserFn("nan"),
            UserFn("throwsLate")}

\* The coupled step from (x, v) by h is the scalar step, component by
\* component.
SameStep(x, v, h) ==
  LET c == CoupledMethodSolve(method, f, x, v, h)
      r == MethodSolve(method, ScalarOf(f), x, v[1], h)
  IN  /\ c.ok = r.ok
      /\ r.ok => (c.t = r.t /\ c.y = <<r.y>>)

\* C21: for each key of {euler, heun, rk4} the coupled step function applied
\* to g(t, [y]) = [f(t, y)] returns (t', [y']) with (t', y') the result of
\* the scalar step function on f; so a one-component coupled solve records
\* the trajectory of the scalar solve: the initial point, and each further
\* point the one the scalar loop body makes of the point before it.
C21_Componentwise ==
  (OneComponent /\ points # <<>>) =>
     /\ \A h \in {SignedStep(call.options), FNeg(SignedStep(call.options)),
                  CurrentH(call.options, t)} : SameStep(t, y, h)
     /\ points[1].t = call.options.t0
     /\ points[1].y = <<ScalarOptions.y0>>
     /\ points[1].dydt = <<Eval(ScalarOf(f), ScalarOptions.t0, ScalarOptions.y0).v>>
     /\ \A n \in {j \in {Len(points)} : j >= 2} :
          LET s == TryStep(ScalarOf(f), ScalarOptions, method,
                           points[n - 1].t, points[n - 1].y[1])
          IN  /\ s.ok
              /\ points[n] = [t |-> s.t, y |-> <<s.y>>, dydt |-> <<s.dydt>>]

\* A one-component coupled RK4 solve of t + y1 that returned a trajectory of
\* several points.
C21_Witness ==
  /\ OneComponent /\ pc = "returned" /\ result.success
  /\ method = "rk4" /\ f = Compiled(<< <<"t", "+", "y1">> >>)
  /\ Len(points) >= 3
  /\ FLt(call.options.tEnd, call.options.t0)

(***************************************************************************)
(* C22                                                                     *)
(***************************************************************************)
\* C22: validateStepSize(h, [t0, tEnd]) classifies by n = |tEnd - t0| / h:
\* n < 10 and n > 100000 give valid = false with a suggested step (a 20th
\* and a 10000th of the range), 50000 < n <= 100000 gives valid = true with
\* a warning, 10 <= n <= 50000 gives valid = true without one; n = 10 and
\* n = 100000, and h = 0.00001 on [0, 1], are valid.
C22_Classes ==
  (IsScalar /\ pc # "idle") =>
     /\ FLt(StepsAcross, Ten) =>
          /\ ~Advisory.valid /\ Advisory.warning # <<>>
          /\ Advisory.suggested = FDiv(DomainLength, Twenty)
     /\ FGt(StepsAcross, HundredThousand) =>
          /\ ~Advisory.valid /\ Advisory.warning # <<>>
          /\ Advisory.suggested = FDiv(DomainLength, TenThousand)
     /\ (FGt(StepsAcross, FiftyThousand) /\ FLe(StepsAcross, HundredThousand)) =>
          (Advisory.valid /\ Advisory.warning # <<>>)
     /\ (FGe(StepsAcross, Ten) /\ FLe(StepsAcross, FiftyThousand)) =>
          (Advisory.valid /\ Advisory.warning = <<>>)
     /\ StepsAcross \in {Ten, HundredThousand} => Advisory.valid
     /\ (/\ call.options.t0 = Zero /\ call.options.tEnd = One
         /\ call.options.stepSize = Dec(1, 100000)) => Advisory.valid

\* An ODESolver call with exactly 100000 steps across its domain that went
\* past option validation.
C22_Witness ==
  /\ IsScalar /\ pc = "returned" /\ EarlierChecksPass
  /\ StepsAcross = HundredThousand
  /\ Advisory.valid /\ Advisory.warning # <<>>
  /\ Entered("resolve")

(***************************************************************************)
(* C23                                                                     *)
(***************************************************************************)
\* lo and hi are the least and the greatest of the values.
IsRange(lo, hi, values) ==
  /\ \E k \in DOMAIN values : values[k] = lo
  /\ \E k \in DOMAIN values : values[k] = hi
  /\ \A k \in DOMAIN values : FLe(lo, values[k]) /\ FLe(values[k], hi)

\* C23: on success metadata.totalPoints is the number of points,
\* metadata.stepSize the stepSize of the options, metadata.domain the pair
\* (t0, tEnd) in the order given, and metadata.range the least and greatest
\* y of all points, the initial one included (coupled: one pair for each
\* component of y0).
C23_Metadata ==
  (pc = "returned" /\ result.success) =>
     /\ result.metadata.totalPoints = Len(result.points)
     /\ result.points = points
     /\ result.metadata.stepSize = call.options.stepSize
     /\ result.metadata.domain = <<call.options.t0, call.options.tEnd>>
     /\ IF IsScalar
        THEN IsRange(result.metadata.range[1], result.metadata.range[2],
                     [k \in DOMAIN points |-> points[k].y])
        ELSE /\ Len(result.metadata.ranges) = Len(call.options.y0.items)
             /\ \A i \in DOMAIN result.metadata.ranges :
                  IsRange(result.metadata.ranges[i][1], result.metadata.ranges[i][2],
                          [k \in DOMAIN points |-> points[k].y[i]])

\* A successful backward ODESolver solve whose last step was shortened and
\* whose greatest y is the initial one.
C23_Witness ==
  /\ IsScalar /\ pc = "returned" /\ result.success
  /\ FLt(call.options.tEnd, call.options.t0)
  /\ Len(points) >= 3
  /\ FSub(points[Len(points) - 1].t, points[Len(points)].t) # call.options.stepSize
  /\ result.metadata.range[2] = points[1].y
  /\ result.metadata.range[1] # result.metadata.range[2]

(***************************************************************************)
(* Concurrent solve calls on ODESolver.  The code of a call runs on the    *)
(* one thread from its invocation, and from each resumption, to its next   *)
(* await of the yield timer or to its return; calls interleave there only. *)
(***************************************************************************)
\* The calls made concurrently: a solve of 1024 steps (one yield), a run of
\* 65536 steps cut by maxIterations = 1000 at its yield, an expression with
\* an unknown variable, and a short solve.
ConcurrentInputs ==
  {Call("ODESolver", "solve", <<"t", "+", "y">>, NoFunction,
        Options(<<Zero, One>>, Dec(1, 1024), One, "euler", <<>>)),
   Call("ODESolver", "solveWithFunction", <<>>, Compiled(<<"1">>),
        Options(<<Zero, One>>, Dec(1, 65536), One, "euler", <<1000>>)),
   Call("ODESolver", "solve", <<"t", "+", "z">>, NoFunction,
        Options(<<Zero, One>>, Dec(1, 10), One, "rk4", <<>>)),
   Call("ODESolver", "solve", <<"1">>, NoFunction,
        Options(<<One, Zero>>, Dec(1, 10), One, "absent", <<>>))}

ConcurrentInit ==
  /\ Init
  /\ solver = "ODESolver"

\* The locals of call i alone (t, y, iterations and points of the
\* numericalSolve activation of call i).
LocalsShared(i) == tasks[1]

\* let t, y, iterations and const points of numericalSolve: each activation
\* has its own.
LocalsOf(i) == tasks[i]

\* The promise of call i resolves and the thread is free.
TaskReturns(i, solution) ==
  /\ tasks' = [tasks EXCEPT ![i].pc = "returned", ![i].result = solution]
  /\ thread' = 0

\* solve / solveWithFunction is called: the call has the thread; solve
\* starts the scan of the expression by the shared pattern.
TaskInvoke(i) ==
  /\ thread = 0
  /\ tasks[i].pc = "idle"
  /\ \E c \in ConcurrentInputs :
       /\ tasks' = [tasks EXCEPT ![i] =
                      [NoTask EXCEPT !.pc = "prefix", !.call = c, !.f = c.f]]
       /\ lastIndex' = IF c.entry = "solve" THEN Len(c.expression) ELSE lastIndex
  /\ thread' = i
  /\ UNCHANGED <<callVars, calcVars, appVars>>

\* What comes before the loop, in one piece: the last exec of the scan
\* returns null (lastIndex is 0 again), parse, validateOptions, getMethod
\* and the initial point.
TaskPrefixOutcome(i, c, parsed, validation, methodName, key) ==
  IF ~parsed.valid
  THEN TaskReturns(i, Failure(c.options, methodName, parsed.error))
  ELSE IF ~validation.valid
  THEN TaskReturns(i, Failure(c.options, methodName, validation.error))
  ELSE IF key = "undefined"
  THEN TaskReturns(i, Failure(c.options, methodName,
                              <<"Unknown numerical method: ", methodName>>))
  ELSE IF ~Eval(parsed.evaluate, c.options.t0, c.options.y0).ok
  THEN TaskReturns(i, Failure(c.options, methodName,
           <<"Computation error: ">>
             \o Eval(parsed.evaluate, c.options.t0, c.options.y0).msg))
  ELSE /\ tasks' = [tasks EXCEPT ![i] =
                      [@ EXCEPT !.pc = "loop", !.f = parsed.evaluate, !.method = key,
                                !.t = c.options.t0, !.y = c.options.y0,
                                !.points = <<[t |-> c.options.t0, y |-> c.options.y0,
                                              dydt |-> Eval(parsed.evaluate, c.options.t0,
                                                            c.options.y0).v]>>]]
       /\ thread' = i

\* What parse returns, or the function handed to solveWithFunction.
ParsedOf(c) ==
  IF c.entry = "solve" THEN parse(c.expression)
  ELSE [valid |-> TRUE, variables |-> {}, evaluate |-> c.f, error |-> <<>>]

TaskPrefix(i) ==
  /\ thread = i
  /\ tasks[i].pc = "prefix"
  /\ lastIndex' = IF tasks[i].call.entry = "solve" THEN 0 ELSE lastIndex
  /\ TaskPrefixOutcome(i, tasks[i].call, ParsedOf(tasks[i].call),
                       validateOptions(tasks[i].call.options),
                       MethodOrDefault(tasks[i].call.options),
                       getMethod(MethodOrDefault(tasks[i].call.options)))
  /\ UNCHANGED <<callVars, calcVars, appVars>>

\* The error of the iteration cap.
CapFailure(options) ==
  Failure(options, MethodOrDefault(options),
          <<"Computation error: ", "Maximum iterations (",
            ToString(MaxIterationsOf(options)), ") reached without convergence">>)

\* The error of a step that throws in pass n of the loop.
StepFailure(options, n, msg) ==
  Failure(options, MethodOrDefault(options),
          <<"Computation error: ", "Integration failed at step ", ToString(n), ": ">>
            \o msg)

\* One pass of the loop of call i on its locals L.
TaskPass(i, L, c) ==
  IF L.iterations >= MaxIterationsOf(c.options)
  THEN TaskReturns(i, CapFailure(c.options))
  ELSE IF ReachedEnd(c.options, L.t)
  THEN TaskReturns(i, IF L.iterations + 1 >= MaxIterationsOf(c.options)
                      THEN CapFailure(c.options)
                      ELSE Success(c.options, tasks[i].method, L.points))
  ELSE LET s == TryStep(tasks[i].f, c.options, tasks[i].method, L.t, L.y)
       IN  IF ~s.ok
           THEN TaskReturns(i, StepFailure(c.options, L.iterations + 1, s.msg))
           ELSE /\ tasks' = [tasks EXCEPT ![i] =
                      [@ EXCEPT !.t = s.t, !.y = s.y,
                                !.iterations = L.iterations + 1,
                                !.points = Append(L.points,
                                                  [t |-> s.t, y |-> s.y, dydt |-> s.dydt]),
                                !.pc = IF (L.iterations + 1) % YieldEvery = 0
                                       THEN "yield" ELSE "loop"]]
                /\ thread' = IF (L.iterations + 1) % YieldEvery = 0 THEN 0 ELSE i

TaskStep(i) ==
  /\ thread = i
  /\ tasks[i].pc = "loop"
  /\ TaskPass(i, LocalsOf(i), tasks[i].call)
  /\ UNCHANGED <<callVars, calcVars, appVars, lastIndex>>

\* The timer of the yield of call i fires while the thread is free.
TaskResume(i) ==
  /\ thread = 0
  /\ tasks[i].pc = "yield"
  /\ tasks' = [tasks EXCEPT ![i].pc = "loop"]
  /\ thread' = i
  /\ UNCHANGED <<callVars, calcVars, appVars, lastIndex>>

ConcurrentNext ==
  \E i \in TaskIds :
     \/ TaskInvoke(i)
     \/ TaskPrefix(i)
     \/ TaskStep(i)
     \/ TaskResume(i)

ConcurrentSpec == ConcurrentInit /\ [][ConcurrentNext]_vars

(***************************************************************************)
(* C24                                                                     *)
(***************************************************************************)
\* Call i is past what comes before the loop with an initial point.
InLoop(i) == tasks[i].points # <<>>

\* The newest point of call i is the one the loop body makes of the point
\* before it, and the counter counts the points added.
OwnTrajectory(i) ==
  LET c == tasks[i].call
      pts == tasks[i].points
      n == Len(pts)
  IN  /\ tasks[i].f = ParsedOf(c).evaluate
      /\ tasks[i].method = getMethod(MethodOrDefault(c.options))
      /\ pts[1] = [t |-> c.options.t0, y |-> c.options.y0,
                   dydt |-> Eval(tasks[i].f, c.options.t0, c.options.y0).v]
      /\ tasks[i].t = pts[n].t /\ tasks[i].y = pts[n].y
      /\ tasks[i].iterations = n - 1
      /\ n >= 2 =>
           LET s == TryStep(tasks[i].f, c.options, tasks[i].method,
                            pts[n - 1].t, pts[n - 1].y)
           IN  /\ ~ReachedEnd(c.options, pts[n - 1].t)
               /\ n - 1 <= MaxIterationsOf(c.options)
               /\ s.ok
               /\ pts[n] = [t |-> s.t, y |-> s.y, dydt |-> s.dydt]

\* The Solution of call c run alone, given the trajectory it has when it
\* leaves the loop.
AloneOutcome(c, fn, key, pts) ==
  LET last == pts[Len(pts)]
      steps == Len(pts) - 1
  IN  IF steps >= MaxIterationsOf(c.options) THEN CapFailure(c.options)
      ELSE IF ReachedEnd(c.options, last.t)
      THEN IF steps + 1 >= MaxIterationsOf(c.options) THEN CapFailure(c.options)
           ELSE Success(c.options, key, pts)
      ELSE StepFailure(c.options, steps + 1,
                       TryStep(fn, c.options, key, last.t, last.y).msg)

\* The Solution of a call that does not come to the loop.
EarlyOutcome(c) ==
  IF ~ParsedOf(c).valid
  THEN Failure(c.options, MethodOrDefault(c.options), ParsedOf(c).error)
  ELSE IF ~validateOptions(c.options).valid
  THEN Failure(c.options, MethodOrDefault(c.options), validateOptions(c.options).error)
  ELSE IF getMethod(MethodOrDefault(c.options)) = "undefined"
  THEN Failure(c.options, MethodOrDefault(c.options),
               <<"Unknown numerical method: ", MethodOrDefault(c.options)>>)
  ELSE Failure(c.options, MethodOrDefault(c.options),
               <<"Computation error: ">>
                 \o Eval(ParsedOf(c).evaluate, c.options.t0, c.options.y0).msg)

\* C24: when two solve calls are in flight and interleave at the yields of
\* their loops (one after every 1000th iteration), each returns the Solution
\* it returns when run alone: the trajectory of each is stepped from its own
\* points only, whatever the other call did in between, and the shared
\* lastIndex of the parser's pattern is 0 whenever the thread is free.
C24_Independent ==
  /\ (thread = 0 => lastIndex = 0)
  /\ \A i \in TaskIds :
       /\ InLoop(i) => OwnTrajectory(i)
       /\ (tasks[i].pc = "yield") => (tasks[i].iterations % YieldEvery = 0)
       /\ (tasks[i].pc = "returned" /\ thread = 0) =>
            tasks[i].result =
              IF InLoop(i)
              THEN AloneOutcome(tasks[i].call, tasks[i].f, tasks[i].method,
                                tasks[i].points)
              ELSE EarlyOutcome(tasks[i].call)

\* Two calls in flight: the first waits at the yield of its 1000th
\* iteration while the second, invoked meanwhile, runs its loop.
C24_Witness ==
  /\ tasks[1].pc = "yield" /\ tasks[1].iterations = YieldEvery
  /\ thread = 2 /\ tasks[2].pc = "loop"
  /\ tasks[2].iterations >= 2
  /\ OwnTrajectory(1) /\ OwnTrajectory(2)

(***************************************************************************)
(* Calculator and MathUtils                                                *)
(***************************************************************************)
\* Math.round: the integer nearest to x, halves upwards.
MathRound(x) ==
  IF ~IsFinite(x) \/ x.e >= 0 THEN x
  ELSE FromInt((2 * x.m + 2 ^ (-x.e)) \div (2 ^ (1 - x.e)))

\* The integer square root.
RECURSIVE ISqrt(_)
ISqrt(n) ==
  IF n < 2 THEN n
  ELSE LET r == 2 * ISqrt(n \div 4)
       IN  IF (r + 1) * (r + 1) <= n THEN r + 1 ELSE r

\* The bit pairs n is widened by for its root to have a bit more than
\* Precision.
Widening(n) == IMax(0, (2 * Precision + 3 - BitLen(n)) \div 2)

\* The root of n * 2^(2 * h), computed on the widened n with a sticky last
\* bit.
RootOf(n, h) ==
  LET w == n * 4 ^ Widening(n)
      r == ISqrt(w)
  IN  RoundME(2 * r + (IF r * r = w THEN 0 ELSE 1), h - Widening(n) - 1)

\* Math.sqrt
MathSqrt(x) ==
  IF IsNaN(x) \/ x.m < 0 THEN NaN
  ELSE IF ~IsFinite(x) \/ x.m = 0 THEN x
  ELSE IF x.e % 2 = 0 THEN RootOf(x.m, x.e \div 2)
  ELSE RootOf(2 * x.m, (x.e - 1) \div 2)

\* base^n for a natural n.
RECURSIVE PowerOf(_, _)
PowerOf(base, n) == IF n = 0 THEN One ELSE FMul(base, PowerOf(base, n - 1))

\* Math.pow on the exponents of the model: the integers and 1/2.
MathPow(base, exponent) ==
  IF IsNaN(base) \/ IsNaN(exponent) THEN NaN
  ELSE IF exponent = Half THEN MathSqrt(base)
  ELSE IF exponent.m >= 0 THEN PowerOf(base, exponent.m * 2 ^ exponent.e)
  ELSE FDiv(One, PowerOf(base, (-exponent.m) * 2 ^ exponent.e))

\* MathUtils.round with factor = Math.pow(10, precision)
round(value, precision) ==
  FDiv(MathRound(FMul(value, PowerOf(Ten, precision))), PowerOf(Ten, precision))

\* MathUtils.isSafeNumber
isSafeNumber(value, maxValue) ==
  IsFinite(value) /\ ~IsNaN(value) /\ FLe(FAbs(value), maxValue)

\* The options of the calculator of the model: { maxValue: 100 }.
CalculatorOptions == [precision |-> 2, enableLogging |-> FALSE, maxValue |-> FromInt(100)]

\* Calculator.validateOperands with MathUtils.validateNumbers: the message
\* of the error thrown, or <<>>.
validateOperands(operands, minCount) ==
  IF Len(operands) < minCount
  THEN <<"At least ", ToString(minCount), " operand(s) required">>
  ELSE IF \E k \in DOMAIN operands : ~isSafeNumber(operands[k], CalculatorOptions.maxValue)
  THEN <<"Invalid number. Must be finite and within safe range.">>
  ELSE <<>>

\* A call of the calculator throws: nothing but the caller's view changes.
Throws(msg) ==
  /\ outcome' = Thrown(msg)
  /\ UNCHANGED <<objects, history, copy, returned>>

\* Calculator.processResult
processResult(operation, operands, value) ==
  IF ~isSafeNumber(value, CalculatorOptions.maxValue)
  THEN Throws(<<"Result exceeds safe calculation range">>)
  ELSE LET roundedResult == round(value, CalculatorOptions.precision)
           calculationResult ==
             [value |-> roundedResult, operation |-> operation, operands |-> operands]
       IN  /\ objects' = Append(objects, calculationResult)
           /\ history' = Append(history, Len(objects) + 1)
           /\ returned' = Append(returned, calculationResult)
           /\ outcome' = Ret(roundedResult)
           /\ copy' = copy

\* The most CalculationResult objects one behaviour creates.
MaxCalls == 2

\* operands.reduce((sum, num) => sum + num, 0) and the product likewise.
RECURSIVE SumOf(_)
SumOf(q) == IF q = <<>> THEN Zero ELSE FAdd(SumOf(SubSeq(q, 1, Len(q) - 1)), q[Len(q)])
RECURSIVE ProductOf(_)
ProductOf(q) ==
  IF q = <<>> THEN One ELSE FMul(ProductOf(SubSeq(q, 1, Len(q) - 1)), q[Len(q)])

\* The operand lists of the model.
Pairs ==
  {<<Two, FromInt(9)>>, <<FromInt(9), Zero>>, <<FromInt(150), Two>>, <<Two, NaN>>,
   <<FromInt(-4), Half>>, <<Two, FromInt(-2)>>, <<FromInt(9), FromInt(9)>>,
   <<Zero, FromInt(-2)>>, <<FromInt(99), Two>>}
Lists == Pairs \cup {<<>>, <<Two>>, <<Two, FromInt(9), Half>>}
Singles == {FromInt(9), Two, FromInt(-4), NaN, FromInt(150), Zero}

CanCall == Len(objects) < MaxCalls

add ==
  /\ CanCall
  /\ \E operands \in Lists :
       IF validateOperands(operands, 2) # <<>>
       THEN Throws(validateOperands(operands, 2))
       ELSE processResult("add", operands, SumOf(operands))
  /\ UNCHANGED <<callVars, taskVars, appVars>>

subtract ==
  /\ CanCall
  /\ \E operands \in Pairs :
       IF validateOperands(operands, 2) # <<>>
       THEN Throws(validateOperands(operands, 2))
       ELSE processResult("subtract", operands, FSub(operands[1], operands[2]))
  /\ UNCHANGED <<callVars, taskVars, appVars>>

multiply ==
  /\ CanCall
  /\ \E operands \in Lists :
       IF validateOperands(operands, 2) # <<>>
       THEN Throws(validateOperands(operands, 2))
       ELSE processResult("multiply", operands, ProductOf(operands))
  /\ UNCHANGED <<callVars, taskVars, appVars>>

divide ==
  /\ CanCall
  /\ \E operands \in Pairs :
       IF validateOperands(operands, 2) # <<>>
       THEN Throws(validateOperands(operands, 2))
       ELSE IF operands[2] = Zero
       THEN Throws(<<"Division by zero is not allowed">>)
       ELSE processResult("divide", operands, FDiv(operands[1], operands[2]))
  /\ UNCHANGED <<callVars, taskVars, appVars>>

power ==
  /\ CanCall
  /\ \E operands \in Pairs :
       IF validateOperands(operands, 2) # <<>>
       THEN Throws(validateOperands(operands, 2))
       ELSE processResult("power", operands, MathPow(operands[1], operands[2]))
  /\ UNCHANGED <<callVars, taskVars, appVars>>

sqrt ==
  /\ CanCall
  /\ \E operand \in Singles :
       IF validateOperands(<<operand>>, 1) # <<>>
       THEN Throws(validateOperands(<<operand>>, 1))
       ELSE IF FLt(operand, Zero)
       THEN Throws(<<"Cannot calculate square root of negative number">>)
       ELSE processResult("sqrt", <<operand>>, MathSqrt(operand))
  /\ UNCHANGED <<callVars, taskVars, appVars>>

\* getHistory: [...this.history], a new array of the same objects.
getHistory ==
  /\ copy' = history
  /\ UNCHANGED <<objects, history, returned, outcome>>
  /\ UNCHANGED <<callVars, taskVars, appVars>>

\* clearHistory: this.history.length = 0
clearHistory ==
  /\ history' = <<>>
  /\ returned' = <<>>
  /\ UNCHANGED <<objects, copy, outcome>>
  /\ UNCHANGED <<callVars, taskVars, appVars>>

\* The caller changes the array it got: it removes the last element, or
\* appends one of the elements again.
MutateCopy ==
  /\ copy # <<0>> /\ copy # <<>>
  /\ copy' \in {SubSeq(copy, 1, Len(copy) - 1), Append(copy, copy[1])}
  /\ Len(copy') <= MaxCalls + 1
  /\ UNCHANGED <<objects, history, returned, outcome>>
  /\ UNCHANGED <<callVars, taskVars, appVars>>

\* The caller writes to an element of the array it got: entry.value = 0.
MutateEntry ==
  /\ copy # <<0>>
  /\ \E k \in DOMAIN copy :
       /\ objects[copy[k]].value # Zero
       /\ objects' = [objects EXCEPT ![copy[k]].value = Zero]
  /\ UNCHANGED <<history, copy, returned, outcome>>
  /\ UNCHANGED <<callVars, taskVars, appVars>>

CalculatorInit ==
  /\ Init
  /\ solver = "ODESolver"

CalculatorNext ==
  \/ add
  \/ subtract
  \/ multiply
  \/ divide
  \/ power
  \/ sqrt
  \/ getHistory
  \/ clearHistory
  \/ MutateCopy
  \/ MutateEntry

CalculatorSpec == CalculatorInit /\ [][CalculatorNext]_vars

(***************************************************************************)
(* C25                                                                     *)
(***************************************************************************)
\* What getHistory() shows: the objects of this.history as they are now.
HistoryShown == [k \in DOMAIN history |-> objects[history[k]]]

\* C25: the history of the calculator is the sequence of the operations
\* that returned a value (since the last clearHistory), one entry for each
\* in call order with its operation, operands and rounded result; a call
\* that throws appends nothing; clearHistory makes it empty; and nothing a
\* caller does to what getHistory returned changes it.
C25_HistoryIsTheLog ==
  /\ [](HistoryShown = returned)
  /\ [][/\ (~outcome'.ok /\ outcome' # outcome) => history' = history
        /\ (copy' # copy \/ objects' # objects) =>
              \/ HistoryShown' = HistoryShown
              \/ Len(history') = Len(history) + 1]_vars

\* The caller wrote to an element of the array getHistory returned, and the
\* calculator's history shows a value that no operation returned.
C25_HistoryRewritten ==
  /\ copy # <<0>> /\ copy # <<>>
  /\ Len(history) = Len(returned)
  /\ \E k \in DOMAIN history :
       /\ history[k] \in {copy[j] : j \in DOMAIN copy}
       /\ HistoryShown[k].value # returned[k].value

(***************************************************************************)
(* estimateStepSize                                                        *)
(***************************************************************************)
\* Math.min and Math.max of two numbers: NaN if either is NaN.
MathMin(a, b) == IF IsNaN(a) \/ IsNaN(b) THEN NaN ELSE IF FLt(b, a) THEN b ELSE a
MathMax(a, b) == IF IsNaN(a) \/ IsNaN(b) THEN NaN ELSE IF FGt(b, a) THEN b ELSE a

\* const samplePoints = 5; the loop runs i = 0..samplePoints.
samplePoints == 5

\* x = x0 + (xEnd - x0) * i / samplePoints
SampleAt(x0, xEnd, i) ==
  FAdd(x0, FDiv(FMul(FSub(xEnd, x0), FromInt(i)), FromInt(samplePoints)))

\* maxDerivative after the samples 0..i of the scalar loop: a derivative
\* that is not finite is skipped, an exception leaves the loop.
RECURSIVE ScalarMaxDerivative(_, _, _, _, _)
ScalarMaxDerivative(fn, x0, y0, xEnd, i) ==
  IF i < 0 THEN Ret(Zero)
  ELSE LET before == ScalarMaxDerivative(fn, x0, y0, xEnd, i - 1)
           derivative == Eval(fn, SampleAt(x0, xEnd, i), y0)
       IN  IF ~before.ok THEN before
           ELSE IF ~derivative.ok THEN Thrown(derivative.msg)
           ELSE IF IsFinite(derivative.v)
           THEN Ret(MathMax(before.v, FAbs(derivative.v)))
           ELSE before

\* The largest finite magnitude in an array of derivatives, from m on.
RECURSIVE MaxMagnitude(_, _)
MaxMagnitude(m, derivatives) ==
  IF derivatives = <<>> THEN m
  ELSE MaxMagnitude(IF IsFinite(Head(derivatives))
                    THEN MathMax(m, FAbs(Head(derivatives))) ELSE m,
                    Tail(derivatives))

\* maxDerivativeMagnitude after the samples 0..i of the coupled loop.
RECURSIVE CoupledMaxDerivative(_, _, _, _, _)
CoupledMaxDerivative(fn, x0, y0, xEnd, i) ==
  IF i < 0 THEN Ret(Zero)
  ELSE LET before == CoupledMaxDerivative(fn, x0, y0, xEnd, i - 1)
           derivatives == CoupledEval(fn, SampleAt(x0, xEnd, i), y0)
       IN  IF ~before.ok THEN before
           ELSE IF ~derivatives.ok THEN Thrown(derivatives.msg)
           ELSE Ret(MaxMagnitude(before.v, derivatives.v))

\* The literals of the two functions.
NearZero == Dec(1, 1000000)
ScalarDefault(totalRange) == MathMin(Dec(1, 10), FDiv(totalRange, FromInt(100)))
CoupledDefault(totalRange) == MathMin(Dec(1, 100), FDiv(totalRange, Thousand))

\* Math.max(minStep, Math.min(maxStep, suggestedStep)) with
\* suggestedStep = Math.sqrt(2 * errorTolerance / maxDerivative).
Constrained(totalRange, errorTolerance, maxDerivative, finest, coarsest) ==
  MathMax(FDiv(totalRange, finest),
          MathMin(FDiv(totalRange, coarsest),
                  MathSqrt(FDiv(FMul(Two, errorTolerance), maxDerivative))))

\* NumericalMethods.estimateStepSize
estimateStepSize(fn, x0, y0, domain) ==
  LET totalRange == FAbs(FSub(domain[2], x0))
      maxDerivative == ScalarMaxDerivative(fn, x0, y0, domain[2], samplePoints)
  IN  IF ~maxDerivative.ok THEN ScalarDefault(totalRange)
      ELSE IF FLt(maxDerivative.v, NearZero) THEN ScalarDefault(totalRange)
      ELSE Constrained(totalRange, Dec(1, 1000), maxDerivative.v, TenThousand, Twenty)

\* CoupledNumericalMethods.estimateStepSize
CoupledEstimateStepSize(fn, x0, y0, domain) ==
  LET totalRange == FAbs(FSub(domain[2], x0))
      maxDerivativeMagnitude ==
        CoupledMaxDerivative(fn, x0, y0, domain[2], samplePoints)
  IN  IF ~maxDerivativeMagnitude.ok THEN CoupledDefault(totalRange)
      ELSE IF FLt(maxDerivativeMagnitude.v, NearZero) THEN ScalarDefault(totalRange)
      ELSE Constrained(totalRange, Dec(1, 10000), maxDerivativeMagnitude.v,
                       FiftyThousand, FromInt(50))

\* The arguments of the model.
EstimateFunctions == {UserFn("zero"), UserFn("tiny"), UserFn("throws"),
                      UserFn("throwsLate"), UserFn("nan")}
EstimateDomains ==
  {<<Zero, One>>, <<Zero, Two>>, <<One, Zero>>, <<Zero, FromInt(2000)>>,
   <<Zero, Zero>>, <<Zero, Dec(1, 10)>>}
EstimateStarts == {Zero, One}

EstimateScalar ==
  /\ \E fn \in EstimateFunctions \cup {Compiled(<<"t", "+", "y">>), Compiled(<<"1">>)},
        x0 \in EstimateStarts, y0 \in {One, Zero}, domain \in EstimateDomains :
       estimate' = [class |-> "NumericalMethods", f |-> fn, x0 |-> x0, y0 |-> y0,
                    domain |-> domain, v |-> estimateStepSize(fn, x0, y0, domain)]
  /\ UNCHANGED <<callVars, taskVars, calcVars, webVars>>

EstimateCoupled ==
  /\ \E fn \in EstimateFunctions \cup {Compiled(<< <<"y2">>, <<"-", "y1">> >>)},
        x0 \in EstimateStarts, y0 \in {<<One, Zero>>, <<Zero, Zero>>},
        domain \in EstimateDomains :
       estimate' = [class |-> "CoupledNumericalMethods", f |-> fn, x0 |-> x0,
                    y0 |-> y0, domain |-> domain,
                    v |-> CoupledEstimateStepSize(fn, x0, y0, domain)]
  /\ UNCHANGED <<callVars, taskVars, calcVars, webVars>>

EstimateInit ==
  /\ Init
  /\ solver = "ODESolver"

EstimateNext ==
  \/ EstimateScalar
  \/ EstimateCoupled

EstimateSpec == EstimateInit /\ [][EstimateNext]_vars

(***************************************************************************)
(* C26                                                                     *)
(***************************************************************************)
\* The derivative sampled at point i of the call in estimate.
SampledAt(i) ==
  IF estimate.class = "NumericalMethods"
  THEN Eval(estimate.f, SampleAt(estimate.x0, estimate.domain[2], i), estimate.y0)
  ELSE CoupledEval(estimate.f, SampleAt(estimate.x0, estimate.domain[2], i),
                   estimate.y0)

\* The finite magnitudes among the derivatives sampled at point i.
MagnitudesAt(i) ==
  IF estimate.class = "NumericalMethods"
  THEN {FAbs(SampledAt(i).v)} \cap {x \in {FAbs(SampledAt(i).v)} : IsFinite(x)}
  ELSE {FAbs(SampledAt(i).v[j]) : j \in {k \in DOMAIN SampledAt(i).v :
                                             IsFinite(SampledAt(i).v[k])}}

\* Sampling fails, or no sampled derivative is as large as 1e-6.
FallsBack ==
  \/ \E i \in 0..samplePoints : ~SampledAt(i).ok
  \/ \A i \in 0..samplePoints : \A d \in MagnitudesAt(i) : FLt(d, NearZero)

DomainRange == FAbs(FSub(estimate.domain[2], estimate.x0))

\* C26: when sampling the evaluator throws or the largest sampled derivative
\* magnitude is below 1e-6, the scalar estimateStepSize returns
\* min(0.1, domainRange/100) and the coupled one min(0.01, domainRange/1000).
C26_Fallbacks ==
  (estimate.class # "none" /\ FallsBack) =>
     estimate.v = (IF estimate.class = "NumericalMethods"
                   THEN MathMin(Dec(1, 10), FDiv(DomainRange, FromInt(100)))
                   ELSE MathMin(Dec(1, 100), FDiv(DomainRange, FromInt(1000))))

\* The coupled estimate of an evaluator whose derivatives are all zero is
\* the scalar fallback min(0.1, domainRange/100), ten times the coupled one.
C26_CoupledNearZero ==
  /\ estimate.class = "CoupledNumericalMethods"
  /\ estimate.f = UserFn("zero")
  /\ estimate.domain = <<Zero, One>> /\ estimate.x0 = Zero
  /\ estimate.v = Dec(1, 100)
  /\ estimate.v # MathMin(Dec(1, 100), FDiv(DomainRange, FromInt(1000)))

(***************************************************************************)
(* C27                                                                     *)
(***************************************************************************)
\* The t of the point recorded before the newest one, and of the newest.
PreviousT == points[Len(points) - 1].t
NewestT == points[Len(points)].t

\* a comes before b in the direction of the integration.
Before(a, b) == IF isForward(call.options) THEN FLt(a, b) ELSE FGt(a, b)

\* A point has been recorded after the initial one.
HasStepped == pc \in {"loop", "yield", "returned"} /\ Len(points) >= 2

\* C27 as stated: the recorded t values are strictly monotonic in the
\* direction of travel, consecutive points are exactly stepSize apart
\* (the last pair at most stepSize apart), no recorded t lies outside the
\* closed interval between t0 and tEnd, and after k accepted steps the loop
\* counter is k and points.length is k + 1.
C27_ExactSpacing ==
  HasStepped =>
     /\ Before(PreviousT, NewestT)
     /\ \/ FAbs(FSub(NewestT, PreviousT)) = call.options.stepSize
        \/ /\ ReachedEnd(call.options, NewestT)
           /\ FLe(FAbs(FSub(NewestT, PreviousT)), call.options.stepSize)
     /\ ~Before(NewestT, call.options.t0)
     /\ ~Before(call.options.tEnd, NewestT)
     /\ pc \in {"loop", "yield"} => iterations = Len(points) - 1

\* C27, amended: every recorded t is the rounded sum of the t before it and
\* the signed step (the step shortened to tEnd - t when it would pass
\* tEnd); t never moves against the direction of travel and stands still
\* only when t + h is rounded to t; no recorded t is before t0, every t but
\* the newest is strictly before tEnd, and the newest is past tEnd only
\* after a shortened step; in the loop after k accepted steps the counter
\* is k and points.length is k + 1, and a successful return leaves the
\* counter at points.length.
C27_Trajectory ==
  HasStepped =>
     /\ NewestT = FAdd(PreviousT, CurrentH(call.options, PreviousT))
     /\ ~Before(NewestT, PreviousT)
     /\ NewestT = PreviousT => FAdd(PreviousT, SignedStep(call.options)) = PreviousT
     /\ ~Before(PreviousT, call.options.t0)
     /\ Before(PreviousT, call.options.tEnd)
     /\ Before(call.options.tEnd, NewestT) =>
           CurrentH(call.options, PreviousT) = FSub(call.options.tEnd, PreviousT)
     /\ pc \in {"loop", "yield"} => iterations = Len(points) - 1
     /\ (pc = "returned" /\ result.success) => iterations = Len(points)

\* A step in the middle of a run whose two t values are not stepSize apart
\* when subtracted, although t has moved.
C27_Witness ==
  /\ pc = "loop"
  /\ Len(points) >= 3
  /\ ~ReachedEnd(call.options, NewestT)
  /\ NewestT # PreviousT
  /\ FAbs(FSub(NewestT, PreviousT)) # call.options.stepSize

(***************************************************************************)
(* C28                                                                     *)
(***************************************************************************)
\* The loop of a scalar call whose options passed ODESolver.validateOptions.
ScalarLoop ==
  /\ IsScalar
  /\ pc \in {"loop", "yield"}
  /\ validateOptions(call.options).valid

\* C28: a scalar call whose options pass validateOptions needs at most
\* |tEnd - t0| / stepSize <= 100000 steps and one shortened last step, so
\* its loop counter never exceeds that number and the cap of 1000000
\* iterations is out of its reach.
C28_ScalarConverges ==
  ScalarLoop =>
     /\ FLe(StepsAcross, HundredThousand)
     /\ FLe(FromInt(iterations), FAdd(StepsAcross, One))

\* A scalar call with validated options that has run more iterations than
\* its domain has steps and is where it started: t + h is rounded to t, so
\* only the iteration cap ends its loop.
C28_Stalled ==
  /\ ScalarLoop
  /\ pc = "loop"
  /\ FGt(FromInt(iterations), FAdd(StepsAcross, One))
  /\ t = call.options.t0
  /\ FAdd(t, CurrentH(call.options, t)) = t
  /\ ~ReachedEnd(call.options, t)

(***************************************************************************)
(* C29                                                                     *)
(***************************************************************************)
\* What validateOptions of the solver returns for the options of the call.
ValidationOfCall ==
  IF IsScalar THEN validateOptions(call.options)
  ELSE CoupledValidateOptions(call.options)

\* The options pass the checks of finiteness (and of the y0 array).
FiniteInputs ==
  /\ IsFinite(call.options.t0) /\ IsFinite(call.options.tEnd)
  /\ IsFinite(call.options.stepSize)
  /\ IF IsScalar THEN IsFinite(call.options.y0)
     ELSE /\ call.options.y0.isArray
          /\ call.options.y0.items # <<>>
          /\ \A k \in DOMAIN call.options.y0.items : IsFinite(call.options.y0.items[k])

EqualEndsError == <<"Start and end t values cannot be equal">>

\* C29: the first failing check gives the error: for finite inputs with
\* t0 = tEnd it is 'Step size must be positive' when stepSize <= 0 and
\* 'Step size cannot be larger than the integration domain' otherwise, and
\* neither validateOptions nor a returned Solution ever carries 'Start and
\* end t values cannot be equal'.
C29_CheckOrder ==
  Entered("validate") =>
     /\ ValidationOfCall.error # EqualEndsError
     /\ pc = "returned" => result.error # EqualEndsError
     /\ (FiniteInputs /\ call.options.t0 = call.options.tEnd) =>
           ValidationOfCall =
             Invalid(IF FLe(call.options.stepSize, Zero)
                     THEN "Step size must be positive"
                     ELSE "Step size cannot be larger than the integration domain")

\* A call with finite options, t0 = tEnd and a positive stepSize has
\* returned the error of the step-size check.
C29_Witness ==
  /\ pc = "returned"
  /\ stages[Len(stages)] = "validate"
  /\ FiniteInputs
  /\ call.options.t0 = call.options.tEnd
  /\ FGt(call.options.stepSize, Zero)
  /\ ~result.success
  /\ result.error = <<"Step size cannot be larger than the integration domain">>

(***************************************************************************)
(* ODEWebApp.  A form submission is a request; its solve either settles    *)
(* before the handler gives way to another event (fewer than YieldEvery    *)
(* iterations: only promise continuations lie between) or waits on the     *)
(* timers of its yields, and other events are handled meanwhile.           *)
(***************************************************************************)
\* The most form submissions in one behaviour, and the most yields of one
\* solve.
MaxRequests == 3
MaxYields == 2

\* How a solve ends: a Solution with success true or false, or a rejection.
Endings == {"success", "failure", "throws"}

clearResults(w) == [w EXCEPT !.currentSolution = 0, !.chart = 0]
showLoading(w) == clearResults([w EXCEPT !.loading = TRUE])
hideLoading(w) == [w EXCEPT !.loading = FALSE]
showError(w, message) == [w EXCEPT !.error = message]
clearError(w) == [w EXCEPT !.error = <<>>]

\* displaySingleSolution / displayCoupledSolution of the solution of
\* request id.
displaySolution(w, id) == [w EXCEPT !.currentSolution = id, !.chart = id]

\* The handler after its await: the solution or the error, then hideLoading.
AfterAwait(w, id, ending) ==
  hideLoading(CASE ending = "success" -> displaySolution(w, id)
                [] ending = "failure" -> showError(w, <<"solution.error">>)
                [] OTHER -> showError(w, <<"Computation failed: ">>))

\* A submit handler from showLoading on, for a solve that takes the given
\* number of yields and ends in the given way.
Submitted(kind, yields, ending) ==
  /\ requests' = Append(requests,
                        [kind |-> kind, yields |-> yields, ending |-> ending,
                         pc |-> IF yields = 0 THEN "settled" ELSE "pending"])
  /\ lastAction' = [kind |-> "submit", id |-> Len(requests) + 1]
  /\ web' = IF yields = 0
            THEN AfterAwait(clearError(showLoading(web)), Len(requests) + 1, ending)
            ELSE clearError(showLoading(web))

handleSingleFormSubmit ==
  /\ web.currentMode = "single"
  /\ Len(requests) < MaxRequests
  /\ \E yields \in 0..MaxYields, ending \in Endings :
       Submitted("single", yields, ending)
  /\ UNCHANGED <<callVars, taskVars, calcVars, estimate>>

\* The coupled form has no equation, or an empty one: an error and nothing
\* else.
handleCoupledFormSubmit ==
  /\ web.currentMode = "coupled"
  /\ Len(requests) < MaxRequests
  /\ \E filled \in BOOLEAN, yields \in 0..MaxYields, ending \in Endings :
       IF ~filled
       THEN /\ web' = showError(web, <<"Please fill in all equation fields.">>)
            /\ UNCHANGED <<requests, lastAction>>
       ELSE Submitted("coupled", yields, ending)
  /\ UNCHANGED <<callVars, taskVars, calcVars, estimate>>

\* The timer of a yield of a pending solve fires; after its last yield the
\* solve settles and its handler goes on.
SolveResumes ==
  /\ \E id \in DOMAIN requests :
       /\ requests[id].pc = "pending"
       /\ IF requests[id].yields > 1
          THEN /\ requests' = [requests EXCEPT ![id].yields = @ - 1]
               /\ web' = web
          ELSE /\ requests' = [requests EXCEPT ![id].yields = 0, ![id].pc = "settled"]
               /\ web' = AfterAwait(web, id, requests[id].ending)
  /\ UNCHANGED lastAction
  /\ UNCHANGED <<callVars, taskVars, calcVars, estimate>>

handleModeToggle ==
  /\ web' = clearResults([web EXCEPT !.currentMode =
                            IF @ = "single" THEN "coupled" ELSE "single"])
  /\ lastAction' = [kind |-> "toggle", id |-> 0]
  /\ UNCHANGED requests
  /\ UNCHANGED <<callVars, taskVars, calcVars, estimate>>

loadSingleExample ==
  /\ web' = clearResults([web EXCEPT !.currentMode = "single"])
  /\ lastAction' = [kind |-> "example", id |-> 0]
  /\ UNCHANGED requests
  /\ UNCHANGED <<callVars, taskVars, calcVars, estimate>>

loadCoupledExample ==
  /\ web' = clearResults([web EXCEPT !.currentMode = "coupled"])
  /\ lastAction' = [kind |-> "example", id |-> 0]
  /\ UNCHANGED requests
  /\ UNCHANGED <<callVars, taskVars, calcVars, estimate>>

WebInit ==
  /\ Init
  /\ solver = "ODESolver"

WebNext ==
  \/ handleSingleFormSubmit
  \/ handleCoupledFormSubmit
  \/ SolveResumes
  \/ handleModeToggle
  \/ loadSingleExample
  \/ loadCoupledExample

WebSpec == WebInit /\ [][WebNext]_vars

(***************************************************************************)
(* C30                                                                     *)
(***************************************************************************)
InFlight == {id \in DOMAIN requests : requests[id].pc = "pending"}

\* C30: once every pending solve has settled, currentSolution and the
\* chart are those of the last submitted request if the last action was a
\* submit (nothing if its solve failed), and are cleared if it was a mode
\* toggle or an example load; they never belong to an earlier request; and
\* the loading indicator is hidden only when no solve is in flight.
C30_LastActionWins ==
  /\ InFlight = {} =>
        /\ lastAction.kind = "submit" =>
              /\ web.currentSolution =
                   (IF requests[lastAction.id].ending = "success"
                    THEN lastAction.id ELSE 0)
              /\ web.chart = web.currentSolution
        /\ lastAction.kind \in {"toggle", "example"} =>
              web.currentSolution = 0 /\ web.chart = 0
  /\ ~web.loading => InFlight = {}

\* Every solve has settled and the app shows the solution of a request
\* that was not the last one submitted.
C30_StaleSolution ==
  /\ InFlight = {}
  /\ lastAction.kind = "submit"
  /\ requests[lastAction.id].ending = "success"
  /\ web.currentSolution # 0
  /\ web.currentSolution < lastAction.id
  /\ web.chart = web.currentSolution

====
